---- MODULE Spec2Model ----
(***************************************************************************)
(* A model of the intent router (agent/routing/router.py), the ensemble    *)
(* classifier (agent/routing/classifiers.py) and the memory manager        *)
(* (agent/routing/memory_v2.py) of sol-unified.                            *)
(*                                                                         *)
(* Confidences are kept as integers in units of 1/Scale, so that the       *)
(* products and quotients the classifiers compute (x0.4, x0.9, /1.5, /2)   *)
(* are exact on the levels the model draws.                                *)
(***************************************************************************)
EXTENDS Integers, Sequences, FiniteSets, TLC

VARIABLES
    \* ---- Router (router.py) ----
    handlers,                 \* Router._handlers: name -> RouteHandler
    intent_to_handler,        \* Router._intent_to_handler: intent name -> handler name
    fallback_handler,         \* Router._fallback_handler is set
    error_handler,            \* Router._error_handler is set
    clarification_handler,    \* Router._clarification_handler is set
    confidence_threshold,     \* Router.confidence_threshold
    clarification_threshold,  \* Router.clarification_threshold
    memory,                   \* Router.memory is set (a MemoryManager is attached)
    session_log,              \* the messages the attached MemoryManager holds for the session
    decision,                 \* the RoutingDecision of the last route() call
    calls,                    \* the callbacks the last route() call invoked, in order
    retry,                    \* the route_with_retry() call in progress
    pre_middleware,           \* Router._pre_middleware: the functions added, in order
    post_middleware,          \* Router._post_middleware: the functions added, in order
    pipeline,                 \* the middleware and classifier the last route() call invoked, in order
    \* ---- EnsembleClassifier (classifiers.py) ----
    ens,                      \* the last ensemble classification: inputs and result
    llm,                      \* LocalLLMClassifier: _available and the last classify() call
    tasks,                    \* the classify() calls on the LocalLLMClassifier that may overlap: where each one is
    config,                   \* the constructor calls made with given weights and thresholds, and how the last request ended
    rule_classifier,          \* RuleBasedClassifier: the registry, _compiled_patterns and the classify() calls made
    \* ---- MemoryManagerV2 / MemoryStoreV2 (memory_v2.py) ----
    entries,                  \* table memory_entries_v2: id -> row
    pending,                  \* table pending_learnings: id -> row
    nmessages,                \* table messages_v2: number of rows of the session
    nsummarized,              \* table messages_v2: rows with is_summarized = 1
    llm_func,                 \* MemoryManagerV2.llm_func: None, or the summarizing function
    context,                  \* the dict the last build_context() call returned
    now,                      \* the clock, in hours
    ncalls,                   \* number of manager calls made so far
    last                      \* the last manager call: its arguments, what it read and returned

routerVars == <<handlers, intent_to_handler, fallback_handler, error_handler,
                clarification_handler, confidence_threshold, clarification_threshold,
                memory, session_log, decision, calls, retry,
                pre_middleware, post_middleware, pipeline>>
ensVars    == <<ens, llm, tasks, config, rule_classifier>>
memVars    == <<entries, pending, nmessages, nsummarized, llm_func, context, now, ncalls, last>>
vars       == <<routerVars, ensVars, memVars>>

\* ------------------------------------------------------------------------
\* Generic helpers
\* ------------------------------------------------------------------------
None == "None"

Range(s) == {s[i] : i \in DOMAIN s}

Max(a, b) == IF a >= b THEN a ELSE b

Min(a, b) == IF a <= b THEN a ELSE b

\* s[:n]
Take(s, n) == SubSeq(s, 1, Min(n, Len(s)))

\* confidence 1.0
Scale == 3000

\* ------------------------------------------------------------------------
\* Intents (intents.py) and classification results (classifiers.py)
\* ------------------------------------------------------------------------
\* The intents of the default registry the model routes, with their category.
IntentCategory ==
    [file_read |-> "SYSTEM_COMMAND", greeting |-> "GREETING",
     ambiguous |-> "AMBIGUOUS", unknown |-> "UNKNOWN"]

IntentNames == {"file_read", "greeting", "ambiguous"}

Intent(name) == [name |-> name, category |-> IntentCategory[name]]

\* The confidences route() is given: 0.2, 0.4, 0.6, 0.9.
RouteConfidences == {600, 1200, 1800, 2700}

\* ClassificationResult, as far as the router reads it: extracted_slots is
\* the set of keys of the dict, alternative_intents the ranked names. The
\* slots vary for the intents a handler can serve, the alternatives for the
\* others.
Classification(name, confidence, slots, alternatives) ==
    [intent |-> Intent(name), confidence |-> confidence,
     extracted_slots |-> slots, alternative_intents |-> alternatives]

Classifications ==
    {Classification(n, conf, slots, <<>>) :
        n \in {"file_read", "greeting"}, conf \in RouteConfidences,
        slots \in {{}, {"path"}, {"path", "brightness"}}}
    \cup
    {Classification(n, conf, {}, <<"greeting", "file_read">>) :
        n \in IntentNames, conf \in RouteConfidences}

\* The classifications the attempts of route_with_retry are given.
RetryClassifications ==
    {Classification(n, conf, {"path", "brightness"}, <<>>) :
        n \in {"file_read", "greeting"}, conf \in {1200, 2700}}

\* needs_clarification without its confidence floor of 0.5
needs_clarification_without_floor(c) ==
    c.intent.category = "AMBIGUOUS"

\* ClassificationResult.needs_clarification
needs_clarification(c) ==
    c.confidence < 1500 \/ c.intent.category = "AMBIGUOUS"

\* ------------------------------------------------------------------------
\* Router: registration
\* ------------------------------------------------------------------------
HandlerNames == {"H", "G"}

\* What a callback does when it is awaited: it returns a value or raises.
Returns(v) == [kind |-> "returns", value |-> v]

Raises(e) == [kind |-> "raises", value |-> e]

HandlerBehaviours == {Returns("done"), Raises("boom")}

FallbackBehaviours == {Returns("fell back"), Raises("fallback boom")}

ErrorHandlerBehaviours == {Returns("recovered"), Raises("error handler boom")}

\* A clarification callback returns a prompt, an empty prompt, or raises.
ClarificationBehaviours ==
    {Returns("Which one?"), Returns(""), Raises("clarify boom")}

\* A callback the router awaited, and what it did.
Call(name, b) == [name |-> name, kind |-> b.kind, value |-> b.value]

\* What MemoryManager.record_interaction does: it completes, or a store
\* write fails in the first add_message, in the second, or in
\* extract_user_facts.
RecordBehaviours == {"ok", "fail_first", "fail_second", "fail_extract"}

\* The register_handler calls the model makes: name, intents, requires_slots.
Registrations ==
    {<<"H", <<"file_read", "greeting">>, <<"brightness", "path">> >>,
     <<"G", <<"greeting">>, <<>> >>}

NoRetry == [active |-> FALSE, attempt |-> 0, max_retries |-> 0,
            hist |-> <<>>, result |-> None]

\* RoutingDecision; an absent prompt (None) is the empty sequence of words.
Decision(outcome, c, handler_name, result, error, prompt, suggested) ==
    [outcome |-> outcome, classification |-> c, handler_name |-> handler_name,
     result |-> result, error |-> error, clarification_prompt |-> prompt,
     suggested_intents |-> suggested]

NoClassification ==
    [intent |-> Intent("unknown"), confidence |-> 0, extracted_slots |-> {},
     alternative_intents |-> <<>>]

NoDecision == Decision(None, NoClassification, None, None, None, <<>>, <<>>)

\* The thresholds routers are constructed with: confidence_threshold,
\* clarification_threshold. The defaults 0.5 and 0.3, and one lower and two
\* higher settings.
Thresholds == {<<1500, 900>>, <<1200, 900>>, <<2400, 900>>, <<1500, 2100>>}

\* Router.__init__: thresholds are constructor arguments; the registries
\* start empty.
RouterInit ==
    /\ handlers = <<>>
    /\ intent_to_handler = <<>>
    /\ fallback_handler = FALSE
    /\ error_handler = FALSE
    /\ clarification_handler = FALSE
    /\ \E thresholds \in Thresholds :
          /\ confidence_threshold = thresholds[1]
          /\ clarification_threshold = thresholds[2]
    /\ memory \in BOOLEAN
    /\ session_log = <<>>
    /\ decision = NoDecision
    /\ calls = <<>>
    /\ retry = NoRetry
    /\ pre_middleware = <<>>
    /\ post_middleware = <<>>
    /\ pipeline = <<>>

\* decision, calls and retry describe the last call made on the router: a
\* registration call returns no decision.
Returned ==
    /\ decision' = NoDecision
    /\ calls' = <<>>
    /\ retry' = NoRetry
    /\ pipeline' = <<>>

\* f with key k set to v (dict assignment)
Put(f, k, v) == [x \in DOMAIN f \cup {k} |-> IF x = k THEN v ELSE f[x]]

\* the loop of register_handler keeping the handler an intent already has
RECURSIVE MapIntents_first_wins(_, _, _)
MapIntents_first_wins(map, intents, name) ==
    IF intents = <<>> THEN map
    ELSE MapIntents_first_wins(IF Head(intents) \in DOMAIN map THEN map
                               ELSE Put(map, Head(intents), name),
                               Tail(intents), name)

\* the loop of register_handler: self._intent_to_handler[intent_name] = name
RECURSIVE MapIntents(_, _, _)
MapIntents(map, intents, name) ==
    IF intents = <<>> THEN map
    ELSE MapIntents(Put(map, Head(intents), name), Tail(intents), name)

\* Router.register_handler
register_handler(name, intents, requires_slots) ==
    /\ ~retry.active
    /\ handlers' = Put(handlers, name,
                       [name |-> name, intents |-> intents,
                        requires_slots |-> requires_slots])
    /\ intent_to_handler' = MapIntents(intent_to_handler, intents, name)
    /\ Returned
    /\ UNCHANGED <<fallback_handler, error_handler, clarification_handler,
                   confidence_threshold, clarification_threshold, memory,
                   session_log,
                   pre_middleware, post_middleware>>

\* Router.set_fallback_handler
set_fallback_handler ==
    /\ ~retry.active
    /\ fallback_handler' = TRUE
    /\ Returned
    /\ UNCHANGED <<handlers, intent_to_handler, error_handler,
                   clarification_handler, confidence_threshold,
                   clarification_threshold, memory, session_log,
                   pre_middleware, post_middleware>>

\* Router.set_error_handler
set_error_handler ==
    /\ ~retry.active
    /\ error_handler' = TRUE
    /\ Returned
    /\ UNCHANGED <<handlers, intent_to_handler, fallback_handler,
                   clarification_handler, confidence_threshold,
                   clarification_threshold, memory, session_log,
                   pre_middleware, post_middleware>>

\* Router.set_clarification_handler
set_clarification_handler ==
    /\ ~retry.active
    /\ clarification_handler' = TRUE
    /\ Returned
    /\ UNCHANGED <<handlers, intent_to_handler, fallback_handler,
                   error_handler, confidence_threshold,
                   clarification_threshold, memory, session_log,
                   pre_middleware, post_middleware>>

\* ------------------------------------------------------------------------
\* Router: the decision (Router._handle_classification and its helpers)
\* ------------------------------------------------------------------------
\* What one _handle_classification call yields: the decision, the callbacks
\* it invoked in order, and the messages it recorded to the session.
Step(d, invoked, recorded) ==
    [decision |-> d, calls |-> invoked, recorded |-> recorded]

\* " ".join(prompts): a text is the sequence of its words
RECURSIVE Join(_)
Join(texts) ==
    IF texts = <<>> THEN <<>> ELSE Head(texts) \o Join(Tail(texts))

\* the table slot_prompts of _handle_missing_slots
slot_prompts ==
    [path        |-> <<"What", "file", "or", "path", "should", "I", "use?">>,
     time        |-> <<"What", "time?">>,
     date        |-> <<"What", "date?">>,
     command     |-> <<"What", "command", "should", "I", "run?">>,
     message     |-> <<"What", "message?">>,
     temperature |-> <<"What", "temperature?">>,
     room        |-> <<"Which", "room?">>]

\* slot_prompts.get(s, f"Please provide: {s}")
SlotPrompt(s) ==
    IF s \in DOMAIN slot_prompts THEN slot_prompts[s]
    ELSE <<"Please", "provide:", s>>

\* _check_required_slots reporting only the first missing slot
_check_required_slots_first_only(c, handler) ==
    LET absent(slot) == slot \notin c.extracted_slots
    IN  Take(SelectSeq(handler.requires_slots, absent), 1)

\* Router._check_required_slots
_check_required_slots(c, handler) ==
    LET absent(slot) == slot \notin c.extracted_slots
    IN  SelectSeq(handler.requires_slots, absent)

\* Router._handle_missing_slots
_handle_missing_slots(c, missing_slots) ==
    LET prompts == [i \in DOMAIN missing_slots |-> SlotPrompt(missing_slots[i])]
    IN  Step(Decision("CLARIFICATION_NEEDED", c, None, None, None,
                      Join(prompts), <<>>),
             <<>>, <<>>)

\* the suggested intents of _handle_clarification
Suggested(c) ==
    LET alts == Take(c.alternative_intents, 3)
    IN  IF c.intent.category # "AMBIGUOUS" THEN <<c.intent.name>> \o alts
        ELSE alts

\* the default prompt of _handle_clarification
DefaultPrompt(suggested) ==
    IF suggested # <<>>
    THEN <<"I'm", "not", "sure", "what", "you", "mean.", "Did", "you",
           "want", "to:">> \o Take(suggested, 3) \o <<"?">>
    ELSE <<"Could", "you", "please", "clarify", "what", "you'd", "like",
           "me", "to", "do?">>

\* Router._handle_clarification; cb is what the clarification callback does
_handle_clarification(c, cb) ==
    LET suggested == Suggested(c)
        custom == IF clarification_handler /\ cb.kind = "returns"
                  THEN cb.value ELSE ""
        prompt == IF custom # "" THEN <<custom>> ELSE DefaultPrompt(suggested)
    IN  Step(Decision("CLARIFICATION_NEEDED", c, None, None, None, prompt,
                      suggested),
             IF clarification_handler THEN <<Call("clarification", cb)>>
             ELSE <<>>,
             <<>>)

\* _execute_fallback that leaves handler_name unset
_execute_fallback_without_handler_name(c, fb) ==
    IF fb.kind = "returns"
    THEN Step(Decision("FALLBACK", c, None, fb.value, None, <<>>, <<>>),
              <<Call("fallback", fb)>>, <<>>)
    ELSE Step(Decision("ERROR", c, None, None, fb.value, <<>>, <<>>),
              <<Call("fallback", fb)>>, <<>>)

\* Router._execute_fallback; fb is what the fallback callback does
_execute_fallback(c, fb) ==
    IF fb.kind = "returns"
    THEN Step(Decision("FALLBACK", c, "fallback", fb.value, None, <<>>, <<>>),
              <<Call("fallback", fb)>>, <<>>)
    ELSE Step(Decision("ERROR", c, None, None, fb.value, <<>>, <<>>),
              <<Call("fallback", fb)>>, <<>>)

\* _handle_low_confidence that asks for clarification whether or not a
\* fallback handler is registered
_handle_low_confidence_without_fallback(c, fb, cb) ==
    _handle_clarification(c, cb)

\* Router._handle_low_confidence
_handle_low_confidence(c, fb, cb) ==
    IF fallback_handler THEN _execute_fallback(c, fb)
    ELSE _handle_clarification(c, cb)

\* The messages MemoryManager.record_interaction stored before it returned
\* or raised.
Recorded(result, mb) ==
    LET user == <<"user", "text">>
        assistant == <<"assistant", result>>
    IN  CASE mb = "fail_first"  -> <<>>
          [] mb = "fail_second" -> <<user>>
          [] OTHER              -> <<user, assistant>>

\* An except branch that keeps the payload of the error callback but drops
\* the message of the exception.
HandleException_without_message(c, handler_name, e, eb, invoked, recorded) ==
    IF error_handler
    THEN Step(Decision("ERROR", c, handler_name,
                       IF eb.kind = "returns" THEN eb.value ELSE None,
                       None, <<>>, <<>>),
              invoked \o <<Call("error", eb)>>, recorded)
    ELSE Step(Decision("ERROR", c, handler_name, None, None, <<>>, <<>>),
              invoked, recorded)

\* The except branch of _handle_classification: e is the message of the
\* exception caught, eb what the error callback does.
HandleException(c, handler_name, e, eb, invoked, recorded) ==
    IF error_handler
    THEN IF eb.kind = "returns"
         THEN Step(Decision("ERROR", c, handler_name, eb.value, e, <<>>, <<>>),
                   invoked \o <<Call("error", eb)>>, recorded)
         ELSE Step(Decision("ERROR", c, handler_name, None, e, <<>>, <<>>),
                   invoked \o <<Call("error", eb)>>, recorded)
    ELSE Step(Decision("ERROR", c, handler_name, None, e, <<>>, <<>>),
              invoked, recorded)

\* The try block of _handle_classification: await the handler, then record
\* the interaction when a memory manager and a session id are present.
ExecuteHandler(c, handler_name, recording, hb, eb, mb) ==
    LET handler == Call(handler_name, hb)
        record == Call("record_interaction",
                       IF mb = "ok" THEN Returns(None)
                       ELSE Raises("storage error"))
    IN  IF hb.kind = "raises"
        THEN HandleException(c, handler_name, hb.value, eb, <<handler>>, <<>>)
        ELSE IF recording /\ mb # "ok"
        THEN HandleException(c, handler_name, record.value, eb,
                             <<handler, record>>, Recorded(hb.value, mb))
        ELSE Step(Decision("HANDLED", c, handler_name, hb.value, None,
                           <<>>, <<>>),
                  IF recording THEN <<handler, record>> ELSE <<handler>>,
                  IF recording THEN Recorded(hb.value, mb) ELSE <<>>)

\* Router._handle_classification. recording: self.memory and session_id;
\* hb, fb, eb, cb, mb: what the handler, the fallback, the error callback,
\* the clarification callback and record_interaction do when awaited.
_handle_classification(c, recording, hb, fb, eb, cb, mb) ==
    IF needs_clarification(c) \/ c.confidence < clarification_threshold
    THEN _handle_clarification(c, cb)
    ELSE IF c.confidence < confidence_threshold
    THEN _handle_low_confidence(c, fb, cb)
    ELSE IF c.intent.name \notin DOMAIN intent_to_handler
    THEN IF fallback_handler THEN _execute_fallback(c, fb)
         ELSE Step(Decision("NO_HANDLER", c, None, None, None, <<>>, <<>>),
                   <<>>, <<>>)
    ELSE LET handler_name == intent_to_handler[c.intent.name]
             route_handler == handlers[handler_name]
             missing_slots == _check_required_slots(c, route_handler)
         IN  IF missing_slots # <<>>
             THEN _handle_missing_slots(c, missing_slots)
             ELSE ExecuteHandler(c, handler_name, recording, hb, eb, mb)

\* ------------------------------------------------------------------------
\* Router: route() and route_with_retry()
\* ------------------------------------------------------------------------
\* Bound on the messages the session holds.
MaxLog == 2

\* Bound on max_retries.
MaxRetries == 2

\* session_id and user_id of a route() call
Sessions ==
    {[session_id |-> None, user_id |-> None],
     [session_id |-> "s1", user_id |-> None],
     [session_id |-> "s1", user_id |-> "u1"]}

\* Without a memory manager route() does not read session_id and user_id.
SessionsOf(attached) ==
    IF attached THEN Sessions ELSE {[session_id |-> None, user_id |-> None]}

NotAwaited == Returns(None)

\* The callbacks a route() of c can await: those a call awaits when every
\* callback raises (a callback that returns only stops the call earlier).
Awaitable(c, recording) ==
    LET all == _handle_classification(c, recording, Raises("e"), Raises("e"),
                                      Raises("e"), Raises("e"), "ok").calls
    IN  {all[i].name : i \in DOMAIN all}

\* What the awaited callbacks can do; a callback the call does not await
\* does nothing.
BehavioursOf(c, recording, sess) ==
    LET awaited == Awaitable(c, recording)
        pick(name, behaviours) ==
            IF name \in awaited THEN behaviours ELSE {NotAwaited}
    IN  [hb : IF awaited \cap HandlerNames # {} THEN HandlerBehaviours
              ELSE {NotAwaited},
         fb : pick("fallback", FallbackBehaviours),
         eb : pick("error", ErrorHandlerBehaviours),
         cb : pick("clarification", ClarificationBehaviours),
         mb : IF recording /\ awaited \cap HandlerNames # {}
              THEN (IF sess.user_id = None
                    THEN RecordBehaviours \ {"fail_extract"}
                    ELSE RecordBehaviours)
              ELSE {"ok"}]

\* Bound on the functions added to each middleware stack.
MaxMiddleware == 2

\* A middleware function, by what it does when awaited: it returns None, it
\* returns a classification, or it raises.
Middleware(kind, value) == [kind |-> kind, value |-> value]

Passes == Middleware("passes", NoClassification)

Fails == Middleware("raises", NoClassification)

\* The classifications the middleware of the model return.
Injected ==
    {Classification("file_read", 2700, {"path", "brightness"}, <<>>),
     Classification("greeting", 1200, {}, <<>>)}

MiddlewareFuncs == {Passes, Fails} \cup {Middleware("returns", c) : c \in Injected}

\* One invocation of the pipeline of route(): the stage, the position in
\* its stack and the classification the invocation returned, if any.
Invoked(stage, index, value) == [stage |-> stage, index |-> index, value |-> value]

\* The invocations of the first n functions of a middleware stack.
InvokedStack(stage, stack, n) ==
    [i \in 1..n |->
        Invoked(stage, i, IF stack[i].kind = "returns" THEN stack[i].value
                          ELSE NoClassification)]

\* route() in which a pre-middleware that returns a classification does not
\* end the pipeline: the rest of the stack, the classifier and the
\* post-middleware run on
Pipeline_without_short_circuit(pre, post, classified) ==
    LET RECURSIVE run_post(_, _)
        run_post(i, c) ==
            IF i > Len(post) THEN c
            ELSE run_post(i + 1, IF post[i].kind = "returns" THEN post[i].value ELSE c)
    IN  [classification |-> run_post(1, classified),
         invoked |-> InvokedStack("pre", pre, Len(pre))
                     \o <<Invoked("classifier", 0, classified)>>
                     \o InvokedStack("post", post, Len(post))]

\* route() that lets the exception of a middleware end the pipeline: a
\* pre-middleware that raises ends it without a classification, a
\* post-middleware that raises ends the post stage
Pipeline_stopping_on_error(pre, post, classified) ==
    LET RECURSIVE run_pre(_)
        run_pre(i) ==
            IF i > Len(pre) THEN [short |-> FALSE, at |-> Len(pre)]
            ELSE IF pre[i].kind # "passes" THEN [short |-> TRUE, at |-> i]
            ELSE run_pre(i + 1)
        before == run_pre(1)
        RECURSIVE run_post(_, _)
        run_post(i, c) ==
            IF i > Len(post) THEN [classification |-> c, at |-> Len(post)]
            ELSE IF post[i].kind = "raises" THEN [classification |-> c, at |-> i]
            ELSE run_post(i + 1, IF post[i].kind = "returns" THEN post[i].value ELSE c)
        after == run_post(1, classified)
        pres == InvokedStack("pre", pre, before.at)
    IN  IF before.short
        THEN [classification |-> pre[before.at].value, invoked |-> pres]
        ELSE [classification |-> after.classification,
              invoked |-> pres \o <<Invoked("classifier", 0, classified)>>
                          \o InvokedStack("post", post, after.at)]

\* The pipeline of Router.route before the decision: the pre-middleware in
\* order, the first that returns a classification ending the call's
\* pipeline; then the classifier, which yields classified; then every
\* post-middleware in order, each that returns a classification replacing
\* the current one. An exception of a middleware is swallowed. Yields the
\* classification the decision is computed from and what was invoked.
Pipeline(pre, post, classified) ==
    LET RECURSIVE run_pre(_)
        run_pre(i) ==
            IF i > Len(pre) THEN [short |-> FALSE, at |-> Len(pre)]
            ELSE IF pre[i].kind = "returns" THEN [short |-> TRUE, at |-> i]
            ELSE run_pre(i + 1)
        before == run_pre(1)
        RECURSIVE run_post(_, _)
        run_post(i, c) ==
            IF i > Len(post) THEN c
            ELSE run_post(i + 1, IF post[i].kind = "returns" THEN post[i].value ELSE c)
        pres == InvokedStack("pre", pre, before.at)
    IN  IF before.short
        THEN [classification |-> pre[before.at].value, invoked |-> pres]
        ELSE [classification |-> run_post(1, classified),
              invoked |-> pres \o <<Invoked("classifier", 0, classified)>>
                          \o InvokedStack("post", post, Len(post))]

\* Router.add_pre_middleware
add_pre_middleware(middleware) ==
    /\ ~retry.active
    /\ Len(pre_middleware) < MaxMiddleware
    /\ pre_middleware' = Append(pre_middleware, middleware)
    /\ Returned
    /\ UNCHANGED <<handlers, intent_to_handler, fallback_handler,
                   error_handler, clarification_handler, confidence_threshold,
                   clarification_threshold, memory, session_log,
                   post_middleware>>

\* Router.add_post_middleware
add_post_middleware(middleware) ==
    /\ ~retry.active
    /\ Len(post_middleware) < MaxMiddleware
    /\ post_middleware' = Append(post_middleware, middleware)
    /\ Returned
    /\ UNCHANGED <<handlers, intent_to_handler, fallback_handler,
                   error_handler, clarification_handler, confidence_threshold,
                   clarification_threshold, memory, session_log,
                   pre_middleware>>

\* One route() call from the classification on. The classification c is
\* what the pre-middleware, the classifier and the post-middleware yield.
RouteOnce(c, recording, b) ==
    _handle_classification(c, recording, b.hb, b.fb, b.eb, b.cb, b.mb)

\* Router.route
route(classified, sess) ==
    LET recording == memory /\ sess.session_id # None
        p == Pipeline(pre_middleware, post_middleware, classified)
        c == p.classification
    IN  /\ ~retry.active
        /\ recording => Len(session_log) + 2 <= MaxLog
        /\ \E b \in BehavioursOf(c, recording, sess) :
              LET r == RouteOnce(c, recording, b)
              IN  /\ decision' = r.decision
                  /\ calls' = r.calls
                  /\ session_log' = session_log \o r.recorded
        /\ pipeline' = p.invoked
        /\ retry' = NoRetry
        /\ UNCHANGED <<handlers, intent_to_handler, fallback_handler,
                       error_handler, clarification_handler,
                       confidence_threshold, clarification_threshold, memory,
                       pre_middleware, post_middleware>>

\* range(max_retries): one attempt fewer
RetryLimit_without_first_attempt(max_retries) == max_retries

\* range(max_retries + 1): the number of attempts of route_with_retry
RetryLimit(max_retries) == max_retries + 1

\* Router.route_with_retry is called: last_result = None, the loop starts.
route_with_retry(max_retries) ==
    /\ ~retry.active
    /\ retry' = [active |-> TRUE, attempt |-> 0, max_retries |-> max_retries,
                 hist |-> <<>>, result |-> None]
    /\ decision' = NoDecision
    /\ calls' = <<>>
    /\ pipeline' = <<>>
    /\ UNCHANGED <<handlers, intent_to_handler, fallback_handler,
                   error_handler, clarification_handler, confidence_threshold,
                   clarification_threshold, memory, session_log,
                   pre_middleware, post_middleware>>

\* A loop that goes on after a result that is no error, until the range
\* is exhausted
LoopReturns_on_exhaustion_only(outcome, attempt, max_retries) ==
    attempt + 1 >= RetryLimit(max_retries)

\* The loop of route_with_retry returns after this attempt: the outcome is
\* not ERROR, or the range is exhausted.
LoopReturns(outcome, attempt, max_retries) ==
    outcome # "ERROR" \/ attempt + 1 >= RetryLimit(max_retries)

\* What one attempt of route_with_retry leaves in the history: the outcome,
\* and whether a registered handler was awaited and what it did.
Attempt(r, hb) ==
    [outcome |-> r.decision.outcome,
     handler |-> IF r.calls # <<>> /\ Head(r.calls).name \in HandlerNames
                 THEN hb.kind ELSE None]

\* One iteration of the loop of route_with_retry: route(text, context)
\* without session, then return on a non-error outcome or when the range
\* is exhausted.
retry_attempt(classified) ==
    /\ retry.active
    /\ retry.attempt < RetryLimit(retry.max_retries)
    /\ pipeline' = Pipeline(pre_middleware, post_middleware, classified).invoked
    /\ \E b \in BehavioursOf(Pipeline(pre_middleware, post_middleware, classified).classification,
                              FALSE, [session_id |-> None, user_id |-> None]) :
          LET c == Pipeline(pre_middleware, post_middleware, classified).classification
              r == RouteOnce(c, FALSE, b)
              returns == LoopReturns(r.decision.outcome, retry.attempt,
                                     retry.max_retries)
          IN  /\ decision' = r.decision
              /\ calls' = r.calls
              /\ retry' = [active |-> ~returns,
                           attempt |-> retry.attempt + 1,
                           max_retries |-> retry.max_retries,
                           hist |-> Append(retry.hist, Attempt(r, b.hb)),
                           result |-> IF returns THEN r.decision.outcome
                                      ELSE None]
    /\ UNCHANGED <<handlers, intent_to_handler, fallback_handler,
                   error_handler, clarification_handler, confidence_threshold,
                   clarification_threshold, memory, session_log,
                   pre_middleware, post_middleware>>

\* ------------------------------------------------------------------------
\* EnsembleClassifier (classifiers.py)
\* ------------------------------------------------------------------------
\* EnsembleClassifier.Strategy
Strategy == {"weighted_vote", "rule_first", "llm_verify", "consensus"}

\* EnsembleClassifier.__init__: rule_confidence_threshold = 0.7
rule_confidence_threshold == 2100

\* EnsembleClassifier.__init__: llm_weight = 0.6, in tenths
llm_weight == 6

\* EnsembleClassifier.__init__: rule_weight = 0.4, in tenths
rule_weight == 4

\* {**a, **b}
Merge(a, b) ==
    [k \in DOMAIN a \cup DOMAIN b |-> IF k \in DOMAIN b THEN b[k] ELSE a[k]]

\* A ClassificationResult of a classifier: the intent by name, alternatives
\* as <<name, score>> pairs, slots and raw scores as dicts.
Result(intent, confidence, raw_scores, slots, alternatives, contributing, agreement) ==
    [intent |-> intent, confidence |-> confidence, raw_scores |-> raw_scores,
     extracted_slots |-> slots, alternative_intents |-> alternatives,
     contributing_classifiers |-> contributing, agreement_score |-> agreement]

\* The intents the two classifiers choose from, besides "unknown".
EnsIntents == {"greeting", "file_read"}

\* The other intent of EnsIntents.
OtherIntent(name) == IF name = "greeting" THEN "file_read" ELSE "greeting"

\* What RuleBasedClassifier.classify returns: unknown at confidence 0 when
\* nothing scores, else the top intent with its slots and the runners-up.
RuleResults ==
    {Result("unknown", 0, <<>>, <<>>, <<>>, <<>>, Scale)}
    \cup
    {Result(n, conf, [x \in {n} |-> conf], slots, alts, <<>>, Scale) :
        n \in EnsIntents, conf \in {1500, 1800, 2400, 2550, 2700},
        slots \in {<<>>, [path |-> "rule path"]},
        alts \in {<<>>}}
    \cup
    {Result(n, conf, [x \in EnsIntents |-> IF x = n THEN conf ELSE 300],
            <<>>, <<<<OtherIntent(n), 300>>>>, <<>>, Scale) :
        n \in EnsIntents, conf \in {1500, 2700}}

\* What LocalLLMClassifier.classify returns: unknown at confidence 0 when
\* the provider is unavailable or fails, else what it parsed.
LLMResults ==
    {Result("unknown", 0, <<>>, <<>>, <<>>, <<>>, Scale)}
    \cup
    {Result(n, conf, <<>>, slots, <<>>, <<>>, Scale) :
        n \in EnsIntents, conf \in {0, 600, 900, 1200, 2400, 3000},
        slots \in {<<>>, [path |-> "llm path"]}}

\* No ClassificationResult.
NoResult == Result(None, 0, <<>>, <<>>, <<>>, <<>>, 0)

\* An ensemble classification: the result, and the provider's result when
\* the provider was consulted (llm_classifier.classify was awaited).
Ensemble(strategy, rule_result, consulted, llm_result, result) ==
    [strategy |-> strategy, rule |-> rule_result, consulted |-> consulted,
     llm |-> IF consulted THEN llm_result ELSE NoResult, result |-> result]

\* _rule_first that adopts the provider's result whenever the provider is
\* consulted, however low the provider's confidence
_rule_first_adopting_provider(rule_result, llm_result) ==
    IF rule_result.confidence >= rule_confidence_threshold
    THEN Ensemble("rule_first", rule_result, FALSE, llm_result,
                  Result(rule_result.intent, rule_result.confidence,
                         rule_result.raw_scores, rule_result.extracted_slots,
                         <<>>, <<"rule_based">>, Scale))
    ELSE Ensemble("rule_first", rule_result, TRUE, llm_result,
             Result(llm_result.intent, llm_result.confidence, <<>>,
                    Merge(rule_result.extracted_slots,
                          llm_result.extracted_slots),
                    <<>>, <<"rule_based", "local_llm">>,
                    IF rule_result.intent = llm_result.intent
                    THEN Scale ELSE Scale \div 2))

\* EnsembleClassifier._rule_first
_rule_first(rule_result, llm_result) ==
    IF rule_result.confidence >= rule_confidence_threshold
    THEN Ensemble("rule_first", rule_result, FALSE, llm_result,
                  Result(rule_result.intent, rule_result.confidence,
                         rule_result.raw_scores, rule_result.extracted_slots,
                         <<>>, <<"rule_based">>, Scale))
    ELSE LET agreement == IF rule_result.intent = llm_result.intent
                          THEN Scale ELSE Scale \div 2
         IN  IF llm_result.confidence < 900
             THEN LET better == IF rule_result.confidence >= llm_result.confidence
                                THEN rule_result ELSE llm_result
                  IN  Ensemble("rule_first", rule_result, TRUE, llm_result,
                               Result(better.intent, better.confidence, <<>>,
                                      better.extracted_slots, <<>>,
                                      <<"rule_based", "local_llm">>, agreement))
             ELSE Ensemble("rule_first", rule_result, TRUE, llm_result,
                      Result(llm_result.intent, llm_result.confidence, <<>>,
                             Merge(rule_result.extracted_slots,
                                   llm_result.extracted_slots),
                             IF rule_result.intent # llm_result.intent
                             THEN <<<<rule_result.intent, rule_result.confidence>>>>
                             ELSE <<>>,
                             <<"rule_based", "local_llm">>, agreement))

\* _weighted_vote that counts each confidence as it is, without the weight
\* of its source
_weighted_vote_unweighted(rule_result, llm_result) ==
    LET voted == llm_result.confidence > 0
        same == rule_result.intent = llm_result.intent
        llm_wins == voted /\ ~same /\ llm_result.confidence > rule_result.confidence
        winner == IF llm_wins THEN llm_result ELSE rule_result
        score == IF voted /\ same
                 THEN rule_result.confidence + llm_result.confidence
                 ELSE winner.confidence
    IN  Ensemble("weighted_vote", rule_result, TRUE, llm_result,
            Result(winner.intent, score \div 2, <<>>,
                   Merge(rule_result.extracted_slots, llm_result.extracted_slots),
                   <<>>, <<"rule_based", "local_llm">>,
                   IF same THEN Scale ELSE 0))

\* x / y of Python for integers x and y # 0, rounded toward zero.
Quotient(x, y) ==
    LET q == (IF x < 0 THEN -x ELSE x) \div (IF y < 0 THEN -y ELSE y)
    IN  IF (x < 0) = (y < 0) THEN q ELSE -q

\* The body of _weighted_vote for the weights rw and lw of the instance, in
\* tenths. Votes are in units of 1/(10 * Scale); sorted() is stable, so on
\* equal votes the rule's intent, inserted first, wins. The division raises
\* ZeroDivisionError when the weights add up to 0.
WeightedVote(rule_result, llm_result, rw, lw) ==
    LET rule_vote == rule_result.confidence * rw
        llm_vote == llm_result.confidence * lw
        voted == llm_result.confidence > 0
        same == rule_result.intent = llm_result.intent
        votes == IF ~voted THEN [x \in {rule_result.intent} |-> rule_vote]
                 ELSE IF same
                 THEN [x \in {rule_result.intent} |-> rule_vote + llm_vote]
                 ELSE [x \in {rule_result.intent, llm_result.intent} |->
                          IF x = rule_result.intent THEN rule_vote
                          ELSE llm_vote]
        sorted_votes ==
            IF ~voted \/ same THEN <<rule_result.intent>>
            ELSE IF llm_vote > rule_vote
            THEN <<llm_result.intent, rule_result.intent>>
            ELSE <<rule_result.intent, llm_result.intent>>
        winner_name == sorted_votes[1]
    IN  IF rw + lw = 0 THEN Raises("ZeroDivisionError")
        ELSE Returns(
            Result(winner_name, Quotient(votes[winner_name], rw + lw), votes,
                   Merge(rule_result.extracted_slots, llm_result.extracted_slots),
                   [i \in 1..(Len(sorted_votes) - 1) |->
                       <<sorted_votes[i + 1], votes[sorted_votes[i + 1]]>>],
                   <<"rule_based", "local_llm">>,
                   IF same THEN Scale ELSE 0))

\* EnsembleClassifier._weighted_vote of an instance built with the default
\* weights.
_weighted_vote(rule_result, llm_result) ==
    Ensemble("weighted_vote", rule_result, TRUE, llm_result,
             WeightedVote(rule_result, llm_result, rule_weight, llm_weight).value)

\* _llm_verify that trusts the rules at every confidence and never asks the
\* provider
_llm_verify_without_verification(rule_result, llm_result) ==
    Ensemble("llm_verify", rule_result, FALSE, llm_result,
             Result(rule_result.intent, rule_result.confidence,
                    rule_result.raw_scores, rule_result.extracted_slots,
                    <<>>, <<"rule_based">>, Scale))

\* EnsembleClassifier._llm_verify
_llm_verify(rule_result, llm_result) ==
    IF rule_result.confidence >= 2550
    THEN Ensemble("llm_verify", rule_result, FALSE, llm_result,
                  Result(rule_result.intent, rule_result.confidence,
                         rule_result.raw_scores, rule_result.extracted_slots,
                         <<>>, <<"rule_based">>, Scale))
    ELSE IF rule_result.intent = llm_result.intent
    THEN Ensemble("llm_verify", rule_result, TRUE, llm_result,
             Result(rule_result.intent,
                    Min(((rule_result.confidence + llm_result.confidence) * 2)
                            \div 3, Scale),
                    <<>>,
                    Merge(rule_result.extracted_slots, llm_result.extracted_slots),
                    <<>>, <<"rule_based", "local_llm">>, Scale))
    ELSE IF llm_result.confidence > rule_result.confidence
    THEN Ensemble("llm_verify", rule_result, TRUE, llm_result,
             Result(llm_result.intent, (llm_result.confidence * 9) \div 10,
                    <<>>, llm_result.extracted_slots,
                    <<<<rule_result.intent, rule_result.confidence>>>>,
                    <<"rule_based", "local_llm">>, 0))
    ELSE Ensemble("llm_verify", rule_result, TRUE, llm_result,
             Result(rule_result.intent, (rule_result.confidence * 9) \div 10,
                    <<>>, rule_result.extracted_slots,
                    <<<<llm_result.intent, llm_result.confidence>>>>,
                    <<"rule_based", "local_llm">>, 0))

\* _consensus that keeps the confidence of the confident source as it is
_consensus_without_penalty(rule_result, llm_result) ==
    IF rule_result.intent = llm_result.intent
    THEN Ensemble("consensus", rule_result, TRUE, llm_result,
             Result(rule_result.intent,
                    (rule_result.confidence + llm_result.confidence) \div 2,
                    <<>>,
                    Merge(rule_result.extracted_slots, llm_result.extracted_slots),
                    <<>>, <<"rule_based", "local_llm">>, Scale))
    ELSE IF rule_result.confidence < 1800 /\ llm_result.confidence < 1800
    THEN Ensemble("consensus", rule_result, TRUE, llm_result,
             Result("ambiguous", 900, <<>>, <<>>,
                    <<<<rule_result.intent, rule_result.confidence>>,
                      <<llm_result.intent, llm_result.confidence>>>>,
                    <<"rule_based", "local_llm">>, 0))
    ELSE LET rule_wins == rule_result.confidence > llm_result.confidence
             confident == IF rule_wins THEN rule_result ELSE llm_result
             other == IF rule_wins THEN llm_result ELSE rule_result
         IN  Ensemble("consensus", rule_result, TRUE, llm_result,
                 Result(confident.intent, confident.confidence,
                        <<>>, confident.extracted_slots,
                        <<<<other.intent, other.confidence>>>>,
                        <<"rule_based", "local_llm">>, 0))

\* EnsembleClassifier._consensus
_consensus(rule_result, llm_result) ==
    IF rule_result.intent = llm_result.intent
    THEN Ensemble("consensus", rule_result, TRUE, llm_result,
             Result(rule_result.intent,
                    (rule_result.confidence + llm_result.confidence) \div 2,
                    <<>>,
                    Merge(rule_result.extracted_slots, llm_result.extracted_slots),
                    <<>>, <<"rule_based", "local_llm">>, Scale))
    ELSE IF rule_result.confidence < 1800 /\ llm_result.confidence < 1800
    THEN Ensemble("consensus", rule_result, TRUE, llm_result,
             Result("ambiguous", 900, <<>>, <<>>,
                    <<<<rule_result.intent, rule_result.confidence>>,
                      <<llm_result.intent, llm_result.confidence>>>>,
                    <<"rule_based", "local_llm">>, 0))
    ELSE LET rule_wins == rule_result.confidence > llm_result.confidence
             confident == IF rule_wins THEN rule_result ELSE llm_result
             other == IF rule_wins THEN llm_result ELSE rule_result
         IN  Ensemble("consensus", rule_result, TRUE, llm_result,
                 Result(confident.intent, (confident.confidence * 8) \div 10,
                        <<>>, confident.extracted_slots,
                        <<<<other.intent, other.confidence>>>>,
                        <<"rule_based", "local_llm">>, 0))

\* EnsembleClassifier.classify
classify(strategy, rule_result, llm_result) ==
    /\ ens' = CASE strategy = "weighted_vote" -> _weighted_vote(rule_result, llm_result)
             [] strategy = "rule_first"    -> _rule_first(rule_result, llm_result)
             [] strategy = "llm_verify"    -> _llm_verify(rule_result, llm_result)
             [] strategy = "consensus"     -> _consensus(rule_result, llm_result)
    /\ UNCHANGED <<llm, tasks, config, rule_classifier>>

\* The constructor calls made with given arguments: whether an
\* EnsembleClassifier and a Router were constructed or the constructor
\* raised, the weights and the threshold the classifier holds, and how the
\* last classify() of that classifier ended.
Config(ensemble, threshold, lw, rw, router, request) ==
    [ensemble |-> ensemble, rule_confidence_threshold |-> threshold,
     llm_weight |-> lw, rule_weight |-> rw, router |-> router,
     request |-> request]

NoConfig == Config(None, 0, 0, 0, None, None)

\* Weights given to EnsembleClassifier.__init__, in tenths.
Weights == {-4, 0, 4, 6}

\* rule_confidence_threshold values given to EnsembleClassifier.__init__.
RuleThresholds == {-300, 2100}

\* confidence_threshold and clarification_threshold given to
\* Router.__init__.
RouterThresholds == {<<1500, 900>>, <<-300, 900>>, <<1500, 3600>>}

\* EnsembleClassifier.__init__ (strategy weighted_vote): the arguments are
\* stored as they are given.
EnsembleClassifier_init(threshold, lw, rw) ==
    /\ config' = Config("constructed", threshold, lw, rw, config.router, None)
    /\ ens' = Ensemble(None, NoResult, FALSE, NoResult, NoResult)
    /\ UNCHANGED <<llm, tasks, rule_classifier>>

\* Router.__init__: the thresholds are stored as they are given, and the
\* registries start empty.
Router_init(confidence, clarification) ==
    /\ confidence_threshold' = confidence
    /\ clarification_threshold' = clarification
    /\ handlers' = <<>>
    /\ intent_to_handler' = <<>>
    /\ fallback_handler' = FALSE
    /\ error_handler' = FALSE
    /\ clarification_handler' = FALSE
    /\ memory' = FALSE
    /\ session_log' = <<>>
    /\ pre_middleware' = <<>>
    /\ post_middleware' = <<>>
    /\ Returned
    /\ config' = [config EXCEPT !.router = "constructed"]
    /\ UNCHANGED <<ens, llm, tasks, rule_classifier>>

\* EnsembleClassifier.classify of the constructed classifier (strategy
\* weighted_vote): it returns the result, or the exception of
\* _weighted_vote leaves it.
configured_classify(rule_result, llm_result) ==
    /\ config.ensemble = "constructed"
    /\ LET r == WeightedVote(rule_result, llm_result, config.rule_weight,
                             config.llm_weight)
       IN  /\ ens' = Ensemble("weighted_vote", rule_result, TRUE, llm_result,
                              IF r.kind = "returns" THEN r.value ELSE NoResult)
           /\ config' = [config EXCEPT !.request =
                            IF r.kind = "raises" THEN r.value ELSE "returned"]
    /\ UNCHANGED <<llm, tasks, rule_classifier>>

\* ------------------------------------------------------------------------
\* RuleBasedClassifier (classifiers.py)
\* ------------------------------------------------------------------------
\* The characters of the texts, keywords and patterns.
Chars == {"h", "i", "H", " ", "7"}

\* The longest text classified.
MaxText == 2

\* The texts classified: the strings over Chars, as sequences of characters.
Texts == UNION {[1..n -> Chars] : n \in 0..MaxText}

\* str.lower
lower(text) == [k \in DOMAIN text |-> IF text[k] = "H" THEN "h" ELSE text[k]]

\* str.strip
strip(text) ==
    LET kept == {k \in DOMAIN text : text[k] # " "}
    IN  IF kept = {} THEN <<>>
        ELSE SubSeq(text, CHOOSE k \in kept : \A j \in kept : k <= j,
                    CHOOSE k \in kept : \A j \in kept : k >= j)

\* str.startswith
startswith(text, prefix) ==
    Len(prefix) <= Len(text) /\ SubSeq(text, 1, Len(prefix)) = prefix

\* word in text, for strings
Contains(text, word) ==
    \E k \in 0..(Len(text) - Len(word)) :
        SubSeq(text, k + 1, k + Len(word)) = word

\* An Intent of the registry with its classification hints; a pattern is a
\* regular expression matching one literal string.
RuleIntent(name, keywords, patterns, priority, slots) ==
    [name |-> name, keywords |-> keywords, patterns |-> patterns,
     priority |-> priority, optional_slots |-> slots]

\* IntentRegistry._register_default_intents: "unknown" has no hints.
UnknownIntent == RuleIntent("unknown", <<>>, <<>>, 0, <<>>)

GreetingIntent == RuleIntent("greeting", <<<<"h", "i">>>>, <<>>, 10, <<>>)

\* An intent of negative priority.
SmallTalkIntent == RuleIntent("small_talk", <<<<"i">>>>, <<>>, -20, <<>>)

ThermostatIntent ==
    RuleIntent("set_thermostat", <<>>, <<<<"7">>>>, 20, <<"temperature">>)

\* IntentRegistry.register on the dict of intents, kept in insertion order:
\* an intent of a registered name takes that name's place.
Registered(registry, intent) ==
    IF \E k \in DOMAIN registry : registry[k].name = intent.name
    THEN [k \in DOMAIN registry |->
            IF registry[k].name = intent.name THEN intent ELSE registry[k]]
    ELSE Append(registry, intent)

\* RuleBasedClassifier._compile_patterns: the patterns of the intents
\* registered when the classifier is constructed.
_compile_patterns(registry) ==
    [n \in {registry[k].name : k \in DOMAIN registry} |->
        registry[CHOOSE k \in DOMAIN registry : registry[k].name = n].patterns]

\* re.search of a pattern compiled with re.IGNORECASE
search(pattern, text) == Contains(lower(text), lower(pattern))

\* The keyword loop of _score_intent: 10 points for each keyword in the
\* text, 5 more when the text starts with it.
RECURSIVE KeywordScore(_, _)
KeywordScore(text_lower, keywords) ==
    IF keywords = <<>> THEN 0
    ELSE LET keyword == lower(Head(keywords))
         IN  (IF Contains(text_lower, keyword)
              THEN 10 + (IF startswith(text_lower, keyword) THEN 5 ELSE 0)
              ELSE 0) + KeywordScore(text_lower, Tail(keywords))

\* RuleBasedClassifier._score_intent, in points
_score_intent(compiled, text_lower, text_original, intent) ==
    LET patterns == IF intent.name \in DOMAIN compiled
                    THEN compiled[intent.name] ELSE <<>>
        score == KeywordScore(text_lower, intent.keywords)
                     + (IF \E k \in DOMAIN patterns :
                              search(patterns[k], text_original)
                        THEN 25 ELSE 0)
    IN  IF score > 0 THEN score + intent.priority ELSE score

\* The "temperature" pattern of _extract_slots on a text of at most three
\* characters: the first run of digits that is a word of its own.
TemperatureSlot(text) ==
    LET IsWord(c) == c # " "
        starts == {k \in DOMAIN text :
                      /\ text[k] = "7"
                      /\ k = 1 \/ ~IsWord(text[k - 1])
                      /\ \E e \in k..Len(text) :
                            /\ \A j \in k..e : text[j] = "7"
                            /\ e = Len(text) \/ ~IsWord(text[e + 1])}
    IN  IF starts = {} THEN <<>>
        ELSE LET k == CHOOSE x \in starts : \A y \in starts : x <= y
                 e == CHOOSE x \in k..Len(text) :
                          /\ \A j \in k..x : text[j] = "7"
                          /\ x = Len(text) \/ text[x + 1] # "7"
             IN  [temperature |-> SubSeq(text, k, e)]

\* RuleBasedClassifier._extract_slots
_extract_slots(text, intent) ==
    IF \E k \in DOMAIN intent.optional_slots :
           intent.optional_slots[k] = "temperature"
    THEN TemperatureSlot(text) ELSE <<>>

\* sorted(scores.items(), key=score, reverse=True) of the scored intents:
\* the positions in the registry, higher scores first, equal scores in
\* the order of the registry.
RECURSIVE SortedScores(_, _)
SortedScores(scored, points) ==
    IF scored = {} THEN <<>>
    ELSE LET top == CHOOSE k \in scored :
                        \A j \in scored :
                            points[k] > points[j]
                                \/ (points[k] = points[j] /\ k <= j)
         IN  <<top>> \o SortedScores(scored \ {top}, points)

\* RuleBasedClassifier.classify that also keeps the intents scoring 0
classify_rule_keeping_zero(registry, compiled, text) ==
    LET text_lower == strip(lower(text))
        points == [k \in DOMAIN registry |->
                      _score_intent(compiled, text_lower, text, registry[k])]
        scored == {k \in DOMAIN registry : points[k] >= 0}
        sorted_scores == SortedScores(scored, points)
    IN  IF scored = {}
        THEN Result("unknown", 0, <<>>, <<>>, <<>>, <<>>, Scale)
        ELSE Result(registry[sorted_scores[1]].name,
                    Min(points[sorted_scores[1]] * 30, Scale),
                    [n \in {registry[k].name : k \in scored} |->
                        points[CHOOSE k \in scored : registry[k].name = n]],
                    _extract_slots(text, registry[sorted_scores[1]]),
                    <<>>, <<>>, Scale)

\* RuleBasedClassifier.classify: confidences in units of 1/Scale
\* (a point is 1/100), raw scores in points.
classify_rule(registry, compiled, text) ==
    LET text_lower == strip(lower(text))
        points == [k \in DOMAIN registry |->
                      _score_intent(compiled, text_lower, text, registry[k])]
        scored == {k \in DOMAIN registry : points[k] > 0}
        sorted_scores == SortedScores(scored, points)
        top_score == points[sorted_scores[1]]
        confidence == Min(top_score * 30, Scale)
        boosted == IF Len(sorted_scores) > 1
                        /\ top_score > points[sorted_scores[2]] * 2
                   THEN Min((confidence * 12) \div 10, Scale)
                   ELSE confidence
        top_intent == registry[sorted_scores[1]]
    IN  IF scored = {}
        THEN Result("unknown", 0, <<>>, <<>>, <<>>, <<>>, Scale)
        ELSE Result(top_intent.name, boosted,
                    [n \in {registry[k].name : k \in scored} |->
                        points[CHOOSE k \in scored : registry[k].name = n]],
                    _extract_slots(text, top_intent),
                    [j \in 1..Min(Len(sorted_scores) - 1, 3) |->
                        <<registry[sorted_scores[j + 1]].name,
                          points[sorted_scores[j + 1]] * 30>>],
                    <<>>, Scale)

\* The most classify() calls kept of one RuleBasedClassifier.
MaxRuleCalls == 2

\* A RuleBasedClassifier over a registry: _compiled_patterns, and the
\* classify() calls made, each with the registry it read.
Rule(registry, compiled, rule_calls) ==
    [registry |-> registry, compiled |-> compiled, calls |-> rule_calls]

\* No RuleBasedClassifier of interest.
RuleIdle == Rule(<<UnknownIntent>>, _compile_patterns(<<UnknownIntent>>), <<>>)

\* IntentRegistry.register, on the registry of the classifier
register(intent) ==
    /\ rule_classifier' = [rule_classifier EXCEPT !.registry = Registered(rule_classifier.registry, intent)]
    /\ UNCHANGED <<ens, llm, tasks, config>>

\* await RuleBasedClassifier.classify(text)
rule_classify(text) ==
    /\ Len(rule_classifier.calls) < MaxRuleCalls
    /\ rule_classifier' = [rule_classifier EXCEPT !.calls =
                   Append(@, [text |-> text, registry |-> rule_classifier.registry,
                              result |-> classify_rule(rule_classifier.registry,
                                                       rule_classifier.compiled, text)])]
    /\ UNCHANGED <<ens, llm, tasks, config>>

\* ------------------------------------------------------------------------
\* LocalLLMClassifier (classifiers.py)
\* ------------------------------------------------------------------------
\* LocalLLMClassifier.__init__: backend
Backends == {"ollama", "openai"}

\* What the availability probe of is_available does: the endpoint answers
\* 200, answers another status, or the request raises.
Probes == {"200", "503", "raises"}

\* The intents of the registry the model's responses name, in the order
\* IntentRegistry.all_intents() lists them.
RegistryOrder == <<"greeting", "file_read", "unknown", "ambiguous">>

\* A JSON number, an absent key, a string that is no number, or null.
Number(v) == [kind |-> "number", value |-> v]

Absent == [kind |-> "absent", value |-> 0]

NotANumber == [kind |-> "text", value |-> 0]

Null == [kind |-> "null", value |-> 0]

\* The "confidence" values of the JSON objects the provider answers: -0.5,
\* 0, 0.4, 0.9, 1.5, absent, "high", null.
JsonConfidences ==
    {Number(v) : v \in {-1500, 0, 1200, 2700, 4500}}
        \cup {Absent, NotANumber, Null}

\* The text the provider answers. json: the text between the first "{" and
\* the last "}" is a JSON object, is no valid JSON, or there is none;
\* fenced: the text is wrapped in ``` marks; intent, confidence: the keys of
\* the object; mentions: the intent names that occur in the text.
Response(fenced, json, intent, confidence, mentions) ==
    [fenced |-> fenced, json |-> json, intent |-> intent,
     confidence |-> confidence, mentions |-> mentions]

NoResponse == Response(FALSE, "none", "absent", Absent, {})

\* The answers of the provider: a JSON object naming a registered intent,
\* an unregistered one or none (the text of the object mentions the intent
\* it names), or text without a valid JSON object that mentions some
\* intent names or none.
Responses ==
    {Response(f, "object", n, conf,
              IF n \in Range(RegistryOrder) THEN {n} ELSE {}) :
        f \in BOOLEAN, n \in {"greeting", "file_read", "teleport", "absent"},
        conf \in JsonConfidences}
    \cup
    {Response(f, j, "absent", Absent, m) :
        f \in BOOLEAN, j \in {"malformed", "none"},
        m \in {{}, {"greeting"}, {"file_read", "greeting"}, {"unknown"}}}

\* The errors _query_llm raises: the request times out or is refused, the
\* body of the answer is no JSON, or (OpenAI-compatible backends) it has no
\* "choices".
QueryErrors(backend) ==
    {"timed out", "connection refused", "Expecting value"}
        \cup (IF backend = "ollama" THEN {} ELSE {"'choices'"})

\* What _query_llm does: it returns the text of the answer or raises.
QueryOutcomes(backend) ==
    [kind : {"returns"}, error : {""}, response : Responses]
        \cup [kind : {"raises"}, error : QueryErrors(backend),
              response : {NoResponse}]

\* A ClassificationResult of LocalLLMClassifier, with its reasoning.
LLMResult(intent, confidence, reasoning) ==
    [intent |-> intent, confidence |-> confidence, reasoning |-> reasoning]

NoLLMResult == LLMResult(None, 0, <<>>)

\* LocalLLMClassifier.is_available: the cached answer, else the probe's
is_available(available, probe) ==
    IF available # None THEN available
    ELSE IF probe = "200" THEN "True" ELSE "False"

\* the loop of the except branch of _parse_llm_response: the first intent
\* of the registry whose name occurs in the response
FirstMentioned(mentions) ==
    LET hits == SelectSeq(RegistryOrder, LAMBDA n : n \in mentions)
    IN  IF hits = <<>> THEN None ELSE Head(hits)

\* the except branch of _parse_llm_response, for the error e
ParseFallback(response, e) ==
    LET intent == FirstMentioned(response.mentions)
    IN  IF intent # None
        THEN LLMResult(intent, 1200, <<"Parsed from non-JSON response:">>)
        ELSE LLMResult("unknown", 0, <<"Failed to parse LLM response:", e>>)

\* the except branch of classify, for the error e
LLMError(e) == LLMResult("unknown", 0, <<"LLM error:", e>>)

\* LocalLLMClassifier._parse_llm_response, within the try of classify: the
\* fence marks are stripped, the JSON object is loaded (ValueError when
\* there is none, JSONDecodeError when it is not valid), the intent is
\* looked up (unknown when unregistered or absent), the confidence is
\* converted (0.5 when absent, ValueError for a string that is no number,
\* TypeError for null, which classify catches) and clamped to [0, 1].
_parse_llm_response(response) ==
    IF response.json = "none"
    THEN ParseFallback(response, "No JSON found in response")
    ELSE IF response.json = "malformed"
    THEN ParseFallback(response, "JSONDecodeError")
    ELSE LET intent == IF response.intent \in Range(RegistryOrder)
                       THEN response.intent ELSE "unknown"
             conf == response.confidence
         IN  CASE conf.kind = "number" ->
                      LLMResult(intent, Max(0, Min(Scale, conf.value)),
                                <<"reasoning of the provider">>)
               [] conf.kind = "absent" ->
                      LLMResult(intent, Scale \div 2,
                                <<"reasoning of the provider">>)
               [] conf.kind = "text" ->
                      ParseFallback(response, "could not convert string to float")
               [] conf.kind = "null" ->
                      LLMError("float() argument must be a string or a real number")

\* One LocalLLMClassifier.classify call: what it was given and returned.
LLMCall(backend, available, probed, query, result) ==
    [backend |-> backend, available |-> available, probed |-> probed,
     query |-> query, result |-> result]

NotQueried == [kind |-> None, error |-> "", response |-> NoResponse]

\* LocalLLMClassifier.__init__: _available is None, nothing classified yet.
LLMIdle(backend) == LLMCall(backend, None, None, NotQueried, NoLLMResult)

\* LocalLLMClassifier.classify; probe is what the availability probe does
\* if it is made, query what _query_llm does if it is awaited.
llm_classify(probe, query) ==
    LET available == is_available(llm.available, probe)
        probed == IF llm.available = None THEN probe ELSE None
    IN  llm' =
          IF available = "False"
          THEN LLMCall(llm.backend, available, probed, NotQueried,
                       LLMResult("unknown", 0, <<"Local LLM not available">>))
          ELSE IF query.kind = "raises"
          THEN LLMCall(llm.backend, available, probed, query,
                       LLMError(query.error))
          ELSE LLMCall(llm.backend, available, probed, query,
                       _parse_llm_response(query.response))

\* Bound on the classify() calls that overlap on one LocalLLMClassifier.
MaxTasks == 3

\* A classify() call as a coroutine: not started ("idle"), suspended in the
\* request of is_available ("probing") or in the request of _query_llm
\* ("querying"), or returned ("done"); whether a probe of the instance had
\* failed when it started, what its own probe and query did, and its
\* result.
Task(pc, after_failure, probed, query, result) ==
    [pc |-> pc, after_failure |-> after_failure, probed |-> probed,
     query |-> query, result |-> result]

IdleTask == Task("idle", FALSE, None, NotQueried, NoLLMResult)

Unavailable == LLMResult("unknown", 0, <<"Local LLM not available">>)

\* Some availability probe of the instance has failed.
ProbeFailed == \E t \in DOMAIN tasks : tasks[t].probed \in {"503", "raises"}

\* The tail of is_available after its request: self._available is assigned
\* from the answer (False when the request raised), whatever it holds by
\* then.
Settle(probe) == IF probe = "200" THEN "True" ELSE "False"

\* LocalLLMClassifier.classify up to its first suspension: is_available
\* returns the cached answer, or sends the probe and is suspended; with a
\* cached True the call goes on to _query_llm and is suspended there.
llm_classify_begin(t) ==
    /\ tasks[t].pc = "idle"
    /\ tasks' = [tasks EXCEPT ![t] =
           CASE llm.available = None ->
                    Task("probing", ProbeFailed, None, NotQueried, NoLLMResult)
             [] llm.available = "False" ->
                    Task("done", ProbeFailed, None, NotQueried, Unavailable)
             [] OTHER ->
                    Task("querying", ProbeFailed, None, NotQueried, NoLLMResult)]
    /\ llm' = IF llm.available = "False"
              THEN LLMCall(llm.backend, "False", None, NotQueried, Unavailable)
              ELSE llm

\* The probe of call t is answered: is_available stores the answer and
\* returns it, and classify returns the unavailable result or goes on to
\* _query_llm and is suspended there.
is_available_resume(t, probe) ==
    /\ tasks[t].pc = "probing"
    /\ LET available == Settle(probe)
       IN  /\ tasks' = [tasks EXCEPT ![t] =
                  IF available = "False"
                  THEN Task("done", @.after_failure, probe, NotQueried,
                            Unavailable)
                  ELSE Task("querying", @.after_failure, probe, NotQueried,
                            NoLLMResult)]
           /\ llm' = IF available = "False"
                     THEN LLMCall(llm.backend, available, probe, NotQueried,
                                  Unavailable)
                     ELSE [llm EXCEPT !.available = available]

\* The request of _query_llm of call t is answered or fails: classify
\* returns what it parsed, or the error result.
llm_classify_resume(t, query) ==
    /\ tasks[t].pc = "querying"
    /\ LET result == IF query.kind = "raises" THEN LLMError(query.error)
                     ELSE _parse_llm_response(query.response)
       IN  /\ tasks' = [tasks EXCEPT ![t] =
                  Task("done", @.after_failure, @.probed, query, result)]
           /\ llm' = LLMCall(llm.backend, llm.available, tasks[t].probed,
                             query, result)

\* ------------------------------------------------------------------------
\* MemoryManagerV2 and MemoryStoreV2 (memory_v2.py)
\*
\* The clock counts hours; every datetime.now() that is stored takes the
\* next hour, so the timestamps of a run are distinct, as they are in the
\* program. The manager is built with no llm_func and auto_compact on.
\* ------------------------------------------------------------------------
\* Bound on the number of calls made on the manager and the store.
MaxCalls == 4

\* MemoryManagerV2.__init__: max_session_messages
max_session_messages == 10

\* MemoryManagerV2.__init__: max_user_memories
max_user_memories == 2

Users == {"u1", "u2"}

Facts == {"likes coffee", "I like coffee", "I love iced coffee", "plays chess"}

Insights == {"prefers short answers"}

Queries == {"", "coffee"}

FactConfidences == {1500, 3000}

Limits == {1, 10}

\* Optional[datetime] = None
NoTime == -1

\* What _heuristic_summarize returns for n messages none of which names a
\* topic.
SummaryText(n) ==
    <<"Session with 1 messages.", "Session with 2 messages.",
      "Session with 3 messages.", "Session with 4 messages.",
      "Session with 5 messages.", "Session with 6 messages.",
      "Session with 7 messages.", "Session with 8 messages.",
      "Session with 9 messages.", "Session with 10 messages.",
      "Session with 11 messages.", "Session with 12 messages.">>[n]

OneDigitSummaries == {SummaryText(n) : n \in 1..9}

TwoDigitSummaries == {SummaryText(n) : n \in 10..12}

\* SequenceMatcher(None, a.lower(), b.lower()).ratio() in units of 1/Scale:
\* the values difflib gives on the texts of the model. The ratio is not
\* symmetric.
SequenceMatcherRatio(a, b) ==
    CASE a = b -> Scale
      [] a = "likes coffee" /\ b = "I like coffee" -> 2640
      [] a = "likes coffee" /\ b = "I love iced coffee" -> 2000
      [] a = "likes coffee" /\ b = "plays chess" -> 1304
      [] a = "likes coffee" /\ b = "prefers short answers" -> 909
      [] a = "likes coffee" /\ b \in OneDigitSummaries -> 833
      [] a = "likes coffee" /\ b \in TwoDigitSummaries -> 811
      [] a = "likes coffee" /\ b = "Summary by the model." -> 182
      [] a = "I like coffee" /\ b = "likes coffee" -> 2640
      [] a = "I like coffee" /\ b = "I love iced coffee" -> 2323
      [] a = "I like coffee" /\ b = "plays chess" -> 1000
      [] a = "I like coffee" /\ b = "prefers short answers" -> 706
      [] a = "I like coffee" /\ b \in OneDigitSummaries -> 811
      [] a = "I like coffee" /\ b \in TwoDigitSummaries -> 789
      [] a = "I like coffee" /\ b = "Summary by the model." -> 882
      [] a = "I love iced coffee" /\ b = "likes coffee" -> 1800
      [] a = "I love iced coffee" /\ b = "I like coffee" -> 2129
      [] a = "I love iced coffee" /\ b = "plays chess" -> 828
      [] a = "I love iced coffee" /\ b = "prefers short answers" -> 615
      [] a = "I love iced coffee" /\ b \in OneDigitSummaries -> 571
      [] a = "I love iced coffee" /\ b \in TwoDigitSummaries -> 558
      [] a = "I love iced coffee" /\ b = "Summary by the model." -> 615
      [] a = "plays chess" /\ b = "likes coffee" -> 1304
      [] a = "plays chess" /\ b = "I like coffee" -> 1000
      [] a = "plays chess" /\ b = "I love iced coffee" -> 828
      [] a = "plays chess" /\ b = "prefers short answers" -> 1125
      [] a = "plays chess" /\ b \in OneDigitSummaries -> 686
      [] a = "plays chess" /\ b \in TwoDigitSummaries -> 667
      [] a = "plays chess" /\ b = "Summary by the model." -> 938
      [] a = "coffee" /\ b = "likes coffee" -> 2000
      [] a = "coffee" /\ b = "I like coffee" -> 1895
      [] a = "coffee" /\ b = "I love iced coffee" -> 1500
      [] a = "coffee" /\ b = "plays chess" -> 706
      [] a = "coffee" /\ b = "prefers short answers" -> 667
      [] a = "coffee" /\ b \in OneDigitSummaries -> 600
      [] a = "coffee" /\ b \in TwoDigitSummaries -> 581
      [] a = "coffee" /\ b = "Summary by the model." -> 444
      [] a = "drinks i iced" /\ b = "drinks like cold" -> 2276
      [] a = "drinks i iced" /\ b = "like likes cold" -> 1286
      [] a = "drinks like cold" /\ b = "drinks i iced" -> 2069
      [] a = "drinks like cold" /\ b = "like likes cold" -> 2323
      [] a = "like likes cold" /\ b = "drinks i iced" -> 1286
      [] a = "like likes cold" /\ b = "drinks like cold" -> 1742
      [] a = "plays chess" /\ b = "drinks i iced" -> 1000
      [] a = "plays chess" /\ b = "drinks like cold" -> 667
      [] a = "plays chess" /\ b = "like likes cold" -> 923

\* hashlib.sha256(...).hexdigest()[:16] of "owner:text", of "text", or of
\* "owner:<timestamp>": distinct inputs give distinct ids.
Hash(owner, text, at) == [owner |-> owner, text |-> text, at |-> at]

\* MemoryEntry, with the category of its metadata
MemoryEntry(id, memory_type, content, category, created_at, updated_at, session_id, user_id, confidence, approved) ==
    [id |-> id, memory_type |-> memory_type, content |-> content,
     category |-> category, created_at |-> created_at,
     updated_at |-> updated_at, session_id |-> session_id,
     user_id |-> user_id, confidence |-> confidence, approved |-> approved,
     access_count |-> 0, last_accessed |-> NoTime, source_ids |-> {},
     is_archived |-> FALSE, version |-> 1]

\* MemoryEntry.relevance_score at time at, in units of 1/210000
relevance_score(entry, query, at) ==
    LET age_hours == at - entry.updated_at
    IN  375 * Max(0, 168 - age_hours)
        + 4200 * Min(10, entry.access_count)
        + 14 * entry.confidence
        + (IF query # "" THEN 21 * SequenceMatcherRatio(query, entry.content)
           ELSE 31500)

\* The elements of S as a list, x before y when <<x, y>> \in order; order is
\* a strict total order on S.
Ordered(S, order) ==
    [i \in 1..Cardinality(S) |->
        CHOOSE x \in S : Cardinality({y \in S : <<y, x>> \in order}) = i - 1]

\* The store as the manager's calls thread it: the table and the clock.
Store(es, at) == [entries |-> es, now |-> at]

\* save that stores the version the object carries
save_keeping_version(s, entry) ==
    IF entry.id \in DOMAIN s.entries
    THEN Store(Put(s.entries, entry.id, [entry EXCEPT !.updated_at = s.now + 1]),
               s.now + 1)
    ELSE Store(Put(s.entries, entry.id, entry), s.now)

\* MemoryStoreV2.save: INSERT OR REPLACE; an existing row bumps the version
\* and the update time.
save(s, entry) ==
    IF entry.id \in DOMAIN s.entries
    THEN Store(Put(s.entries, entry.id,
                   [entry EXCEPT !.version = s.entries[entry.id].version + 1,
                                 !.updated_at = s.now + 1]),
               s.now + 1)
    ELSE Store(Put(s.entries, entry.id, entry), s.now)

\* save() of each entry of a list, in order
RECURSIVE SaveAll(_, _)
SaveAll(s, list) ==
    IF list = <<>> THEN s
    ELSE SaveAll(save(s, Head(list)), Tail(list))

\* search_relevant without the is_archived = 0 condition of its query
search_relevant_with_archived(es, at, query, memory_type, user_id, limit) ==
    LET candidates ==
            {id \in DOMAIN es :
                /\ es[id].approved
                /\ memory_type # None => es[id].memory_type = memory_type
                /\ user_id # None => es[id].user_id = user_id}
        newer(x, y) == es[x].updated_at > es[y].updated_at
        rows == Take(Ordered(candidates,
                            {p \in candidates \X candidates : newer(p[1], p[2])}),
                    limit * 3)
        score(x) == relevance_score(es[x], query, at)
        better(x, y) ==
            \/ score(x) > score(y)
            \/ score(x) = score(y) /\ newer(x, y)
    IN  Take(Ordered(Range(rows),
                     {p \in Range(rows) \X Range(rows) : better(p[1], p[2])}),
             limit)

\* MemoryStoreV2.search_relevant: the ids of the entries found, in order
search_relevant(es, at, query, memory_type, user_id, limit) ==
    LET candidates ==
            {id \in DOMAIN es :
                /\ ~es[id].is_archived
                /\ es[id].approved
                /\ memory_type # None => es[id].memory_type = memory_type
                /\ user_id # None => es[id].user_id = user_id}
        newer(x, y) == es[x].updated_at > es[y].updated_at
        rows == Take(Ordered(candidates,
                            {p \in candidates \X candidates : newer(p[1], p[2])}),
                    limit * 3)
        score(x) == relevance_score(es[x], query, at)
        better(x, y) ==
            \/ score(x) > score(y)
            \/ score(x) = score(y) /\ newer(x, y)
    IN  Take(Ordered(Range(rows),
                     {p \in Range(rows) \X Range(rows) : better(p[1], p[2])}),
             limit)

\* find_similar that matches equal texts only
find_similar_equal_only(es, content, threshold) ==
    {id \in DOMAIN es :
        /\ ~es[id].is_archived
        /\ es[id].approved
        /\ es[id].content = content}

\* MemoryStoreV2.find_similar: the ids of the entries found
find_similar(es, content, threshold) ==
    {id \in DOMAIN es :
        /\ ~es[id].is_archived
        /\ es[id].approved
        /\ SequenceMatcherRatio(content, es[id].content) >= threshold}

\* The entries of ids that sorted(similar, key=similarity, reverse=True)
\* can put first.
MostSimilar(es, ids, content) ==
    {id \in ids :
        \A other \in ids :
            SequenceMatcherRatio(content, es[id].content)
                >= SequenceMatcherRatio(content, es[other].content)}

\* archive_old that deletes the rows it finds
archive_old_deleting(es, at, older_than_days, memory_type) ==
    LET old == {id \in DOMAIN es :
                   /\ es[id].updated_at < at - older_than_days * 24
                   /\ ~es[id].is_archived
                   /\ memory_type # None => es[id].memory_type = memory_type}
    IN  [id \in DOMAIN es \ old |-> es[id]]

\* MemoryStoreV2.archive_old
archive_old(es, at, older_than_days, memory_type) ==
    [id \in DOMAIN es |->
        IF /\ es[id].updated_at < at - older_than_days * 24
           /\ ~es[id].is_archived
           /\ memory_type # None => es[id].memory_type = memory_type
        THEN [es[id] EXCEPT !.is_archived = TRUE]
        ELSE es[id]]

\* The categories of facts, in order of first appearance.
CategoriesOf(facts) ==
    LET first(i) == \A j \in 1..(i - 1) : facts[j].category # facts[i].category
        RECURSIVE collect(_)
        collect(i) ==
            IF i > Len(facts) THEN <<>>
            ELSE (IF first(i) THEN <<facts[i].category>> ELSE <<>>)
                 \o collect(i + 1)
    IN  collect(1)

\* cat_facts.sort(key=confidence, reverse=True); cat_facts[:2]
TopTwo(cat_facts) ==
    LET before(i, j) ==
            \/ cat_facts[i].confidence > cat_facts[j].confidence
            \/ cat_facts[i].confidence = cat_facts[j].confidence /\ i < j
        order == Ordered(DOMAIN cat_facts,
                         {p \in (DOMAIN cat_facts) \X (DOMAIN cat_facts) :
                             before(p[1], p[2])})
    IN  [k \in 1..2 |-> cat_facts[order[k]]]

\* MemorySummarizer.summarize_user_facts without llm_summarize
summarize_user_facts(facts) ==
    IF Len(facts) <= 5 THEN facts
    ELSE LET categories == CategoriesOf(facts)
             of(category) ==
                 LET in(fact) == fact.category = category
                 IN  SelectSeq(facts, in)
             kept(category) ==
                 IF Len(of(category)) <= 2 THEN of(category)
                 ELSE TopTwo(of(category))
             RECURSIVE consolidated(_)
             consolidated(i) ==
                 IF i > Len(categories) THEN <<>>
                 ELSE kept(categories[i]) \o consolidated(i + 1)
         IN  consolidated(1)

\* The text llm_summarize returns when summarize_user_facts awaits it.
ConsolidatedText == "Summary by the model."

\* sum(f.confidence for f in cat_facts)
RECURSIVE SumOfConfidences(_)
SumOfConfidences(cat_facts) ==
    IF cat_facts = <<>> THEN 0
    ELSE Head(cat_facts).confidence + SumOfConfidences(Tail(cat_facts))

\* The entry summarize_user_facts creates for the facts of a category that
\* llm_summarize consolidated, at time at.
ConsolidatedEntry(category, cat_facts, at) ==
    [MemoryEntry(Hash("", ConsolidatedText, 0), "user", ConsolidatedText,
                 category, at, at, None, None,
                 SumOfConfidences(cat_facts) \div Len(cat_facts), TRUE)
        EXCEPT !.source_ids = {cat_facts[i].id : i \in DOMAIN cat_facts}]

\* MemorySummarizer.summarize_user_facts with llm_summarize, at time at
summarize_user_facts_llm(facts, at) ==
    IF Len(facts) <= 5 THEN facts
    ELSE LET categories == CategoriesOf(facts)
             of(category) ==
                 LET in(fact) == fact.category = category
                 IN  SelectSeq(facts, in)
             kept(category) ==
                 IF Len(of(category)) <= 2 THEN of(category)
                 ELSE <<ConsolidatedEntry(category, of(category), at)>>
             RECURSIVE consolidated(_)
             consolidated(i) ==
                 IF i > Len(categories) THEN <<>>
                 ELSE kept(categories[i]) \o consolidated(i + 1)
         IN  consolidated(1)

\* MemoryManagerV2._maybe_compact_user_memories
_maybe_compact_user_memories(s, user_id) ==
    LET ids == search_relevant(s.entries, s.now, "", "user", user_id,
                               max_user_memories + 20)
        memories == [i \in DOMAIN ids |-> s.entries[ids[i]]]
    IN  IF Len(memories) > max_user_memories
        THEN LET consolidated ==
                     IF llm_func = None THEN summarize_user_facts(memories)
                     ELSE summarize_user_facts_llm(memories, s.now)
                 kept == {consolidated[i].id : i \in DOMAIN consolidated}
                 dropped(m) == m.id \notin kept
                 archived == [i \in DOMAIN SelectSeq(memories, dropped) |->
                                 [SelectSeq(memories, dropped)[i]
                                     EXCEPT !.is_archived = TRUE]]
             IN  SaveAll(SaveAll(s, archived), consolidated)
        ELSE s

\* MemoryDeduplicator.find_duplicates: the pairs of positions found, in
\* order
find_duplicates(memories) ==
    LET pairs == {p \in (DOMAIN memories) \X (DOMAIN memories) :
                     /\ p[1] < p[2]
                     /\ SequenceMatcherRatio(memories[p[1]].content,
                                             memories[p[2]].content) >= 2250}
        before(p, q) == p[1] < q[1] \/ (p[1] = q[1] /\ p[2] < q[2])
    IN  Ordered(pairs, {pq \in pairs \X pairs : before(pq[1], pq[2])})

\* MemoryDeduplicator.merge_memories, at time at
merge_memories(m1, m2, at) ==
    LET m1_is_base ==
            \/ m1.confidence > m2.confidence
            \/ /\ m1.confidence = m2.confidence
               /\ m1.updated_at > m2.updated_at
        base == IF m1_is_base THEN m1 ELSE m2
        other == IF m1_is_base THEN m2 ELSE m1
    IN  [id |-> base.id, memory_type |-> base.memory_type,
         content |-> base.content, category |-> base.category,
         created_at |-> Min(base.created_at, other.created_at),
         updated_at |-> at, session_id |-> base.session_id,
         user_id |-> IF base.user_id # None THEN base.user_id
                     ELSE other.user_id,
         confidence |-> Max(base.confidence, other.confidence),
         approved |-> TRUE,
         access_count |-> base.access_count + other.access_count,
         last_accessed |-> NoTime,
         source_ids |-> base.source_ids \cup other.source_ids \cup {other.id},
         is_archived |-> FALSE, version |-> base.version + 1]

\* The merge loop of MemoryManagerV2.compact: memories are the entry
\* objects search_relevant returned, duplicates the pairs of positions.
\* save() writes back into the object it is given, so the object of m2
\* carries its new version and update time into later pairs.
RECURSIVE MergeAll(_, _, _)
MergeAll(s, memories, duplicates) ==
    IF duplicates = <<>> THEN s
    ELSE LET m1 == memories[Head(duplicates)[1]]
             m2 == memories[Head(duplicates)[2]]
             merged == merge_memories(m1, m2, s.now + 1)
             s1 == save(Store(s.entries, s.now + 1), merged)
             s2 == save(s1, [m2 EXCEPT !.is_archived = TRUE])
         IN  MergeAll(s2,
                      [memories EXCEPT ![Head(duplicates)[2]] =
                          s2.entries[m2.id]],
                      Tail(duplicates))

\* The tables the merge loop of MemoryManagerV2.compact leaves after each
\* of its save() calls, in order.
RECURSIVE MergeSteps(_, _, _)
MergeSteps(s, memories, duplicates) ==
    IF duplicates = <<>> THEN <<>>
    ELSE LET m1 == memories[Head(duplicates)[1]]
             m2 == memories[Head(duplicates)[2]]
             merged == merge_memories(m1, m2, s.now + 1)
             s1 == save(Store(s.entries, s.now + 1), merged)
             s2 == save(s1, [m2 EXCEPT !.is_archived = TRUE])
         IN  <<s1.entries, s2.entries>>
                 \o MergeSteps(s2,
                               [memories EXCEPT ![Head(duplicates)[2]] =
                                   s2.entries[m2.id]],
                               Tail(duplicates))

\* The tables MemoryManagerV2.compact goes through, from the table it
\* starts on (es at time at): after archive_old, then after each save().
CompactSteps(es, at, user_id) ==
    LET archived == archive_old(es, at, 30, None)
        ids == search_relevant(archived, at, "", "user", user_id, 1000)
        user_memories == [i \in DOMAIN ids |-> archived[ids[i]]]
    IN  <<es, archived>>
            \o (IF user_id # None
                THEN MergeSteps(Store(archived, at), user_memories,
                                find_duplicates(user_memories))
                ELSE <<>>)

\* What the llm_func of the manager does when summarize_session awaits it:
\* it returns a summary, it returns the empty string, or it raises.
SummarizerBehaviours ==
    {Returns("Summary by the model."), Returns(""), Raises("llm down")}

\* The number of messages _maybe_summarize_session hands to the summarizer
\* for a session of count messages: get_messages reads at most
\* max_session_messages + 10 of them, and all but the last 10 are summarized
\* when more than max_session_messages were read.
ToSummarize(count) ==
    LET messages == Min(count, max_session_messages + 10)
    IN  IF messages > max_session_messages THEN Max(0, messages - 10) ELSE 0

\* MemorySummarizer.summarize_session of n > 0 messages: what the awaited
\* llm_summarize does (lb) when the summarizer has one, else the heuristic
\* summary.
summarize_session(llm_summarize, n, lb) ==
    IF llm_summarize # None THEN lb
    ELSE Returns(SummaryText(n))

\* MemoryManagerV2._maybe_summarize_session, the session holding count
\* messages: the store when it returns or raises. An exception of
\* summarize_session is not caught, and an empty summary is not saved.
_maybe_summarize_session(s, session_id, count, lb) ==
    LET to_summarize == ToSummarize(count)
        summary == summarize_session(llm_func, to_summarize, lb)
    IN  IF to_summarize > 0 /\ summary.kind = "returns" /\ summary.value # ""
        THEN save(Store(s.entries, s.now + 1),
                  MemoryEntry(Hash(session_id, "", s.now + 1), "summary",
                              summary.value, None, s.now + 1,
                              s.now + 1, session_id, None, Scale, TRUE))
        ELSE s

\* _maybe_summarize_session raises: summarize_session was awaited and raised.
SummarizeRaises(count, lb) ==
    /\ ToSummarize(count) > 0
    /\ summarize_session(llm_func, ToSummarize(count), lb).kind = "raises"

\* What llm_func can do in an add_message that makes the session hold count
\* messages; it is awaited only when there are messages to summarize.
SummarizerOf(count) ==
    IF llm_func # None /\ ToSummarize(count) > 0 THEN SummarizerBehaviours
    ELSE {NotAwaited}

\* A call on the manager or the store: its arguments, the ids it returned,
\* the table before it, and for recall the run of recall calls it ends.
CallRecord(op, user_id, text, confidence, ok, returned, before, duplicates, streak, always) ==
    [op |-> op, user_id |-> user_id, text |-> text,
     confidence |-> confidence, ok |-> ok, returned |-> returned,
     before |-> before, duplicates |-> duplicates, streak |-> streak,
     always |-> always]

NoCall == CallRecord(None, None, "", 0, FALSE, <<>>, <<>>, <<>>, 0, {})

\* The limit get_session_context reads the session with.
HistoryLimit == 20

\* MemoryStoreV2.get_messages of a session of count rows, the rows numbered
\* in the order of their timestamps: ORDER BY timestamp ASC LIMIT limit.
get_messages(count, limit) == [i \in 1..Min(count, limit) |-> i]

\* The dict build_context returns: the messages by row number, the user
\* facts and the insights by the id of the entry whose content is listed.
Context(conversation_history, user_facts, insights) ==
    [conversation_history |-> conversation_history, user_facts |-> user_facts,
     insights |-> insights]

NoContext == Context(<<>>, <<>>, <<>>)

\* One more call is made.
Called == ncalls < MaxCalls /\ ncalls' = ncalls + 1

\* MemoryManagerV2.add_message (auto_compact on) in which llm_func, when it
\* is awaited, does lb: the message is saved, then _maybe_summarize_session
\* runs; last.ok tells whether the call returned (TRUE) or an exception left
\* it (FALSE).
add_message_awaiting(session_id, role, content, lb) ==
    /\ Called
    /\ nmessages' = nmessages + 1
    /\ LET s == _maybe_summarize_session(Store(entries, now), session_id,
                                         nmessages + 1, lb)
       IN  /\ entries' = s.entries
           /\ now' = s.now
    /\ last' = CallRecord("add_message", None, content, 0,
                          ~SummarizeRaises(nmessages + 1, lb), <<>>,
                          entries, <<>>, 0, {})
    \* save_message inserts the row with is_summarized = 0, and
    \* _maybe_summarize_session saves the summary without marking any row
    \* (mark_messages_summarized has no caller)
    /\ UNCHANGED <<pending, nsummarized, llm_func, context>>

\* MemoryManagerV2.add_message
add_message(session_id, role, content) ==
    \E lb \in SummarizerOf(nmessages + 1) :
        add_message_awaiting(session_id, role, content, lb)

\* MemoryManagerV2.remember_user_fact
remember_user_fact(user_id, fact, category, confidence) ==
    /\ Called
    /\ LET similar == find_similar(entries, fact, 2250)
           user_similar == {id \in similar : entries[id].user_id = user_id}
       IN  IF user_similar # {}
           THEN \E id \in MostSimilar(entries, user_similar, fact) :
                   LET existing ==
                           [entries[id] EXCEPT
                               !.confidence = Max(@, confidence),
                               !.access_count = @ + 1,
                               !.updated_at = now + 1]
                       s == save(Store(entries, now + 1), existing)
                   IN  /\ entries' = s.entries
                       /\ now' = s.now
                       /\ last' = CallRecord("remember_user_fact", user_id,
                                             fact, confidence, TRUE, <<id>>,
                                             entries, <<>>, 0, {})
           ELSE LET entry == MemoryEntry(Hash(user_id, fact, 0), "user", fact,
                                         category, now + 1, now + 1, None,
                                         user_id, confidence, TRUE)
                    s == _maybe_compact_user_memories(
                             save(Store(entries, now + 1), entry), user_id)
                IN  /\ entries' = s.entries
                    /\ now' = s.now
                    /\ last' = CallRecord("remember_user_fact", user_id, fact,
                                          confidence, TRUE, <<entry.id>>,
                                          entries, <<>>, 0, {})
    /\ UNCHANGED <<pending, nmessages, nsummarized, llm_func, context>>

\* MemoryManagerV2.propose_learning
propose_learning(insight, category, source, confidence) ==
    /\ Called
    /\ pending' = Put(pending, Hash("", insight, 0),
                      [id |-> Hash("", insight, 0), content |-> insight,
                       category |-> category, created_at |-> now + 1,
                       confidence |-> confidence])
    /\ now' = now + 1
    /\ last' = CallRecord("propose_learning", None, insight, confidence, TRUE,
                          <<Hash("", insight, 0)>>, entries, <<>>, 0, {})
    /\ UNCHANGED <<entries, nmessages, nsummarized, llm_func, context>>

\* MemoryStoreV2.get_pending_learnings: the rows of pending_learnings as
\* entries, read at time at
get_pending_learnings(rows, at) ==
    [id \in DOMAIN rows |->
        MemoryEntry(id, "learned", rows[id].content, rows[id].category,
                    rows[id].created_at, at, None, None, rows[id].confidence,
                    FALSE)]

\* approve_learning that leaves the row in pending_learnings
approve_learning_keeping_pending(id) ==
    /\ Called
    /\ IF id \in DOMAIN pending
       THEN LET row == pending[id]
                entry == MemoryEntry(id, "learned", row.content, row.category,
                                     row.created_at, now + 1, None, None,
                                     row.confidence, TRUE)
                s == save(Store(entries, now + 1), entry)
            IN  /\ entries' = s.entries
                /\ now' = s.now
                /\ UNCHANGED pending
       ELSE UNCHANGED <<entries, now, pending>>
    /\ last' = CallRecord("approve_learning", None, id.text, 0,
                          id \in DOMAIN pending, <<id>>, entries, <<>>, 0, {})
    /\ UNCHANGED <<nmessages, nsummarized, llm_func, context>>

\* MemoryManagerV2.approve_learning
approve_learning(id) ==
    /\ Called
    /\ IF id \in DOMAIN pending
       THEN LET row == pending[id]
                entry == MemoryEntry(id, "learned", row.content, row.category,
                                     row.created_at, now + 1, None, None,
                                     row.confidence, TRUE)
                s == save(Store(entries, now + 1), entry)
            IN  /\ entries' = s.entries
                /\ now' = s.now
                /\ pending' = [x \in DOMAIN pending \ {id} |-> pending[x]]
       ELSE UNCHANGED <<entries, now, pending>>
    /\ last' = CallRecord("approve_learning", None, id.text, 0,
                          id \in DOMAIN pending, <<id>>, entries, <<>>, 0, {})
    /\ UNCHANGED <<nmessages, nsummarized, llm_func, context>>

\* MemoryManagerV2.reject_learning
reject_learning(id) ==
    /\ Called
    /\ pending' = [x \in DOMAIN pending \ {id} |-> pending[x]]
    /\ last' = CallRecord("reject_learning", None, id.text, 0,
                          id \in DOMAIN pending, <<id>>, entries, <<>>, 0, {})
    /\ UNCHANGED <<entries, now, nmessages, nsummarized, llm_func, context>>

\* The store steps approve_learning has committed when the process dies.
CrashPoints == {0, 1}

\* approve_learning that removes the pending row before it saves the entry,
\* interrupted after done steps
approve_learning_crash_remove_first(id, done) ==
    /\ Called
    /\ id \in DOMAIN pending
    /\ done \in CrashPoints
    /\ pending' = IF done >= 1 THEN [x \in DOMAIN pending \ {id} |-> pending[x]]
                  ELSE pending
    /\ last' = CallRecord("approve_learning_crash", None, id.text, 0, FALSE,
                          <<id>>, entries, <<>>, 0, {})
    /\ UNCHANGED <<entries, now, nmessages, nsummarized, llm_func, context>>

\* MemoryManagerV2.approve_learning of a pending id, the process dying after
\* done of its two store steps (store.save, then
\* store.remove_pending_learning; each commits on its own), and a new
\* manager opened on the same database: the manager keeps no state of its
\* own, the tables are as the crash left them.
approve_learning_crash(id, done) ==
    /\ Called
    /\ id \in DOMAIN pending
    /\ done \in CrashPoints
    /\ IF done >= 1
       THEN LET row == pending[id]
                entry == MemoryEntry(id, "learned", row.content, row.category,
                                     row.created_at, now + 1, None, None,
                                     row.confidence, TRUE)
                s == save(Store(entries, now + 1), entry)
            IN  /\ entries' = s.entries
                /\ now' = s.now
       ELSE UNCHANGED <<entries, now>>
    /\ last' = CallRecord("approve_learning_crash", None, id.text, 0, FALSE,
                          <<id>>, entries, <<>>, 0, {})
    /\ UNCHANGED <<pending, nmessages, nsummarized, llm_func, context>>

\* MemoryManagerV2.recall: the access counts are raised on the entry
\* objects it returns; nothing is written to the store.
recall(query, user_id, memory_type, limit) ==
    /\ Called
    /\ LET found == search_relevant(entries, now, query, memory_type, user_id,
                                    limit)
           again == last.op = "recall"
       IN  last' = CallRecord("recall", user_id, query, 0, TRUE, found,
                              IF again THEN last.before ELSE entries, <<>>,
                              IF again THEN last.streak + 1 ELSE 1,
                              IF again THEN last.always \cap Range(found)
                              ELSE Range(found))
    /\ UNCHANGED <<entries, pending, nmessages, nsummarized, llm_func, context, now>>

\* MemoryManagerV2.build_context: get_session_context, then recall of the
\* user's facts when a user is given, then recall of the learned insights.
build_context(session_id, user_id, query) ==
    /\ Called
    /\ context' =
          Context(get_messages(nmessages, HistoryLimit),
                  IF user_id # None
                  THEN search_relevant(entries, now, query, "user", user_id, 10)
                  ELSE <<>>,
                  search_relevant(entries, now, query, "learned", None, 5))
    /\ last' = CallRecord("build_context", user_id, query, 0, TRUE, <<>>,
                          entries, <<>>, 0, {})
    /\ UNCHANGED <<entries, pending, nmessages, nsummarized, llm_func, now>>

\* MemoryStoreV2.get with update_access: the row as read, then the update
get(id) ==
    /\ Called
    /\ IF id \in DOMAIN entries
       THEN /\ entries' = [entries EXCEPT ![id].access_count = @ + 1,
                                          ![id].last_accessed = now + 1]
            /\ now' = now + 1
       ELSE UNCHANGED <<entries, now>>
    /\ last' = CallRecord("get", None, id.text, 0, id \in DOMAIN entries,
                          IF id \in DOMAIN entries THEN <<id>> ELSE <<>>,
                          entries, <<>>, 0, {})
    /\ UNCHANGED <<pending, nmessages, nsummarized, llm_func, context>>

\* MemoryManagerV2.compact
compact(user_id) ==
    /\ Called
    /\ LET archived == archive_old(entries, now, 30, None)
           ids == search_relevant(archived, now, "", "user", user_id, 1000)
           user_memories == [i \in DOMAIN ids |-> archived[ids[i]]]
           duplicates == find_duplicates(user_memories)
           s == IF user_id # None
                THEN MergeAll(Store(archived, now), user_memories, duplicates)
                ELSE Store(archived, now)
       IN  /\ entries' = s.entries
           /\ now' = s.now
           /\ last' = CallRecord("compact", user_id, "", 0, TRUE, <<>>,
                                 entries,
                                 IF user_id # None
                                 THEN [i \in DOMAIN duplicates |->
                                          <<ids[duplicates[i][1]],
                                            ids[duplicates[i][2]]>>]
                                 ELSE <<>>,
                                 0, {})
    /\ UNCHANGED <<pending, nmessages, nsummarized, llm_func, context>>

\* Time passes between two calls.
AdvanceClock(hours) ==
    /\ Called
    /\ now' = now + hours
    /\ UNCHANGED <<entries, pending, nmessages, nsummarized, llm_func, context, last>>

\* ------------------------------------------------------------------------
\* The router's specification
\* ------------------------------------------------------------------------
EnsIdle ==
    /\ ens = Ensemble(None, NoResult, FALSE, NoResult, NoResult)
    /\ llm = LLMIdle("ollama")
    /\ tasks = <<>>
    /\ config = NoConfig
    /\ rule_classifier = RuleIdle

MemIdle ==
    /\ entries = <<>>
    /\ pending = <<>>
    /\ nmessages = 0
    /\ nsummarized = 0
    /\ llm_func = None
    /\ context = NoContext
    /\ now = 0
    /\ ncalls = 0
    /\ last = NoCall

Init == RouterInit /\ EnsIdle /\ MemIdle

Registration ==
    \/ \E reg \in Registrations : register_handler(reg[1], reg[2], reg[3])
    \/ set_fallback_handler
    \/ set_error_handler
    \/ set_clarification_handler

Next ==
    \/ Registration /\ UNCHANGED <<ensVars, memVars>>
    \/ \E c \in Classifications, sess \in SessionsOf(memory) :
          route(c, sess) /\ UNCHANGED <<ensVars, memVars>>

Spec == Init /\ [][Next]_vars

\* ------------------------------------------------------------------------
\* The specification of route_with_retry: the router is set up, then
\* route_with_retry calls run one loop iteration at a time.
\* ------------------------------------------------------------------------
RetryNext ==
    \/ Registration /\ UNCHANGED <<ensVars, memVars>>
    \/ \E max_retries \in 0..MaxRetries :
          route_with_retry(max_retries) /\ UNCHANGED <<ensVars, memVars>>
    \/ \E c \in RetryClassifications :
          retry_attempt(c) /\ UNCHANGED <<ensVars, memVars>>

RetrySpec == Init /\ [][RetryNext]_vars

\* ------------------------------------------------------------------------
\* The specification of the middleware pipeline: a router with the default
\* thresholds and no memory manager on which H and then G were registered;
\* middleware is added and route() is called.
\* ------------------------------------------------------------------------
MiddlewareInit ==
    /\ handlers = [name \in {"H", "G"} |->
                      IF name = "H"
                      THEN [name |-> "H", intents |-> <<"file_read", "greeting">>,
                            requires_slots |-> <<"brightness", "path">>]
                      ELSE [name |-> "G", intents |-> <<"greeting">>,
                            requires_slots |-> <<>>]]
    /\ intent_to_handler =
          MapIntents(MapIntents(<<>>, <<"file_read", "greeting">>, "H"),
                     <<"greeting">>, "G")
    /\ fallback_handler = FALSE
    /\ error_handler = FALSE
    /\ clarification_handler = FALSE
    /\ confidence_threshold = 1500
    /\ clarification_threshold = 900
    /\ memory = FALSE
    /\ session_log = <<>>
    /\ decision = NoDecision
    /\ calls = <<>>
    /\ retry = NoRetry
    /\ pre_middleware = <<>>
    /\ post_middleware = <<>>
    /\ pipeline = <<>>
    /\ EnsIdle
    /\ MemIdle

\* What the classifier yields in the calls of this specification.
Classified ==
    {Classification("greeting", 2700, {}, <<>>),
     Classification("file_read", 2700, {"path"}, <<>>)}

MiddlewareNext ==
    \/ \E middleware \in MiddlewareFuncs :
          add_pre_middleware(middleware) /\ UNCHANGED <<ensVars, memVars>>
    \/ \E middleware \in MiddlewareFuncs :
          add_post_middleware(middleware) /\ UNCHANGED <<ensVars, memVars>>
    \/ \E classified \in Classified :
          route(classified, [session_id |-> None, user_id |-> None])
              /\ UNCHANGED <<ensVars, memVars>>

MiddlewareSpec == MiddlewareInit /\ [][MiddlewareNext]_vars

\* A router with the default thresholds and no memory manager.
RouterIdle ==
    /\ RouterInit
    /\ confidence_threshold = 1500
    /\ clarification_threshold = 900
    /\ ~memory

\* The specification of the ensemble classifier: classify() calls on the
\* results the two classifiers can give.
EnsembleInit == RouterIdle /\ EnsIdle /\ MemIdle

EnsembleNext ==
    \E strategy \in Strategy, rule_result \in RuleResults,
       llm_result \in LLMResults :
        classify(strategy, rule_result, llm_result)
            /\ UNCHANGED <<routerVars, memVars>>

EnsembleSpec == EnsembleInit /\ [][EnsembleNext]_vars

\* ------------------------------------------------------------------------
\* The specification of the provider-backed classifier: classify() calls on
\* one LocalLLMClassifier, whatever the provider does.
\* ------------------------------------------------------------------------
ProviderInit ==
    /\ RouterIdle
    /\ ens = Ensemble(None, NoResult, FALSE, NoResult, NoResult)
    /\ \E backend \in Backends : llm = LLMIdle(backend)
    /\ tasks = <<>>
    /\ config = NoConfig
    /\ rule_classifier = RuleIdle
    /\ MemIdle

ProviderNext ==
    \E probe \in Probes, query \in QueryOutcomes(llm.backend) :
        llm_classify(probe, query)
            /\ UNCHANGED <<ens, tasks, config, rule_classifier, routerVars, memVars>>

ProviderSpec == ProviderInit /\ [][ProviderNext]_vars

\* ------------------------------------------------------------------------
\* The specification of overlapping classify() calls on one
\* LocalLLMClassifier (asyncio: a call runs until it awaits a request, and
\* the answers arrive in any order).
\* ------------------------------------------------------------------------
OverlapInit ==
    /\ RouterIdle
    /\ ens = Ensemble(None, NoResult, FALSE, NoResult, NoResult)
    /\ \E backend \in Backends : llm = LLMIdle(backend)
    /\ tasks = [t \in 1..MaxTasks |-> IdleTask]
    /\ config = NoConfig
    /\ rule_classifier = RuleIdle
    /\ MemIdle

\* What _query_llm does in the overlapping calls: a JSON answer or a
\* timeout.
OverlapQueries ==
    {q \in QueryOutcomes("ollama") :
        \/ q.kind = "raises" /\ q.error = "timed out"
        \/ /\ q.kind = "returns"
           /\ q.response = Response(FALSE, "object", "greeting", Number(2700),
                                    {"greeting"})}

OverlapNext ==
    \/ \E t \in 1..MaxTasks :
          llm_classify_begin(t) /\ UNCHANGED <<ens, config, rule_classifier, routerVars, memVars>>
    \/ \E t \in 1..MaxTasks, probe \in Probes :
          is_available_resume(t, probe)
              /\ UNCHANGED <<ens, config, rule_classifier, routerVars, memVars>>
    \/ \E t \in 1..MaxTasks, query \in OverlapQueries :
          llm_classify_resume(t, query)
              /\ UNCHANGED <<ens, config, rule_classifier, routerVars, memVars>>

OverlapSpec == OverlapInit /\ [][OverlapNext]_vars

\* ------------------------------------------------------------------------
\* The specification of the rule-based classifier: a RuleBasedClassifier is
\* constructed over a registry, intents are registered, texts are
\* classified.
\* ------------------------------------------------------------------------
RuleRegistries ==
    {<<UnknownIntent>>,
     <<GreetingIntent, SmallTalkIntent, UnknownIntent>>,
     <<ThermostatIntent, GreetingIntent, UnknownIntent>>}

RuleInit ==
    /\ RouterIdle
    /\ MemIdle
    /\ ens = Ensemble(None, NoResult, FALSE, NoResult, NoResult)
    /\ llm = LLMIdle("ollama")
    /\ tasks = <<>>
    /\ config = NoConfig
    /\ \E registry \in RuleRegistries :
          rule_classifier = Rule(registry, _compile_patterns(registry), <<>>)

RuleNext ==
    \/ \E intent \in {SmallTalkIntent, ThermostatIntent} :
          register(intent) /\ UNCHANGED <<routerVars, memVars>>
    \/ \E text \in Texts :
          rule_classify(text) /\ UNCHANGED <<routerVars, memVars>>

RuleSpec == RuleInit /\ [][RuleNext]_vars

\* ------------------------------------------------------------------------
\* The specification of compaction: facts of one user whose similarity
\* depends on the direction of the comparison are remembered at several
\* confidences, and compact() runs.
\* ------------------------------------------------------------------------
ChainFacts == {"drinks i iced", "drinks like cold", "like likes cold"}

ChainConfidences == {1500, 2400, 3000}

CompactInit ==
    /\ RouterIdle
    /\ EnsIdle
    /\ entries = <<>>
    /\ pending = <<>>
    /\ nmessages = 0
    /\ nsummarized = 0
    /\ llm_func = None
    /\ context = NoContext
    /\ now = 0
    /\ ncalls = 0
    /\ last = NoCall

CompactNext ==
    \/ \E fact \in ChainFacts, confidence \in ChainConfidences :
          remember_user_fact("u1", fact, "general", confidence)
              /\ UNCHANGED <<routerVars, ensVars>>
    \/ \E user_id \in {"u1", None} :
          compact(user_id) /\ UNCHANGED <<routerVars, ensVars>>
    \/ \E hours \in {72, 744} :
          AdvanceClock(hours) /\ UNCHANGED <<routerVars, ensVars>>

CompactSpec == CompactInit /\ [][CompactNext]_vars

\* ------------------------------------------------------------------------
\* The specification of consolidation with a summarizer: a manager with an
\* llm_func and max_user_memories is opened on a database that holds five
\* facts of a user, and facts are remembered and recalled.
\* ------------------------------------------------------------------------
StoredFacts ==
    <<"likes coffee", "I love iced coffee", "drinks i iced",
      "drinks like cold", "like likes cold">>

\* The table holding StoredFacts for user u1, remembered one hour after the
\* other, the last in category last_category.
StoredEntries(last_category) ==
    SaveAll(Store(<<>>, 0),
            [i \in DOMAIN StoredFacts |->
                MemoryEntry(Hash("u1", StoredFacts[i], 0), "user",
                            StoredFacts[i],
                            IF i = Len(StoredFacts) THEN last_category
                            ELSE "general",
                            i, i, None, "u1", 3000, TRUE)]).entries

ConsolidateInit ==
    /\ RouterIdle
    /\ EnsIdle
    /\ \E category \in {"general", "work"} : entries = StoredEntries(category)
    /\ pending = <<>>
    /\ nmessages = 0
    /\ nsummarized = 0
    /\ llm_func = "llm_func"
    /\ context = NoContext
    /\ now = Len(StoredFacts)
    /\ ncalls = 0
    /\ last = NoCall

ConsolidateNext ==
    \/ \E user_id \in Users, category \in {"general", "work"},
          confidence \in FactConfidences :
          remember_user_fact(user_id, "plays chess", category, confidence)
              /\ UNCHANGED <<routerVars, ensVars>>
    \/ \E user_id \in {None, "u1"}, memory_type \in {None, "user"},
          limit \in Limits :
          recall("", user_id, memory_type, limit)
              /\ UNCHANGED <<routerVars, ensVars>>
    \/ \E user_id \in {None, "u1"} :
          build_context("s1", user_id, "")
              /\ UNCHANGED <<routerVars, ensVars>>
    \/ \E hours \in {72} :
          AdvanceClock(hours) /\ UNCHANGED <<routerVars, ensVars>>

ConsolidateSpec == ConsolidateInit /\ [][ConsolidateNext]_vars

\* ------------------------------------------------------------------------
\* The specification of the handler registry: handlers are registered and
\* registered again under the same name with another list of intents, and
\* texts are routed.
\* ------------------------------------------------------------------------
ReRegistrations ==
    Registrations
        \cup {<<"H", <<"file_read">>, <<>> >>,
              <<"G", <<"file_read", "greeting">>, <<>> >>}

RegistryNext ==
    \/ \E reg \in ReRegistrations :
          register_handler(reg[1], reg[2], reg[3])
              /\ UNCHANGED <<ensVars, memVars>>
    \/ \E c \in RetryClassifications :
          route(c, [session_id |-> None, user_id |-> None])
              /\ UNCHANGED <<ensVars, memVars>>

RegistrySpec == Init /\ [][RegistryNext]_vars

\* ------------------------------------------------------------------------
\* The specification of construction: an EnsembleClassifier and a Router
\* are constructed with given weights and thresholds, and requests are made
\* on them.
\* ------------------------------------------------------------------------
ConfigInit == RouterIdle /\ EnsIdle /\ MemIdle

ConfigRuleResults ==
    {r \in RuleResults :
        r.extracted_slots = <<>> /\ r.alternative_intents = <<>>
            /\ r.confidence \in {0, 2700}}

ConfigLLMResults ==
    {r \in LLMResults : r.extracted_slots = <<>> /\ r.confidence \in {0, 2400}}

ConfigNext ==
    \/ \E threshold \in RuleThresholds, lw \in Weights, rw \in Weights :
          EnsembleClassifier_init(threshold, lw, rw)
              /\ UNCHANGED <<routerVars, memVars>>
    \/ \E thresholds \in RouterThresholds :
          Router_init(thresholds[1], thresholds[2]) /\ UNCHANGED memVars
    \/ \E rule_result \in ConfigRuleResults, llm_result \in ConfigLLMResults :
          configured_classify(rule_result, llm_result)
              /\ UNCHANGED <<routerVars, memVars>>
    \/ \E c \in RetryClassifications :
          route(c, [session_id |-> None, user_id |-> None])
              /\ UNCHANGED <<ensVars, memVars>>

ConfigSpec == ConfigInit /\ [][ConfigNext]_vars

\* ------------------------------------------------------------------------
\* The specification of the memory manager: calls on a manager opened on a
\* database that holds no entries and a session that is new or already
\* holds max_session_messages messages.
\* ------------------------------------------------------------------------
MemoryInit ==
    /\ RouterIdle
    /\ EnsIdle
    /\ entries = <<>>
    /\ pending = <<>>
    /\ nmessages \in {0, max_session_messages}
    /\ nsummarized = 0
    /\ llm_func = None
    /\ context = NoContext
    /\ now = 0
    /\ ncalls = 0
    /\ last = NoCall

LearningIds == {Hash("", insight, 0) : insight \in Insights}

MemoryNext ==
    \/ \E content \in {"hi"} :
          add_message("s1", "user", content) /\ UNCHANGED <<routerVars, ensVars>>
    \/ \E user_id \in Users, fact \in Facts, confidence \in FactConfidences :
          remember_user_fact(user_id, fact, "general", confidence)
              /\ UNCHANGED <<routerVars, ensVars>>
    \/ \E insight \in Insights :
          propose_learning(insight, "general", None, 2400)
              /\ UNCHANGED <<routerVars, ensVars>>
    \/ \E id \in LearningIds :
          approve_learning(id) /\ UNCHANGED <<routerVars, ensVars>>
    \/ \E id \in LearningIds :
          reject_learning(id) /\ UNCHANGED <<routerVars, ensVars>>
    \/ \E id \in LearningIds, done \in CrashPoints :
          approve_learning_crash(id, done) /\ UNCHANGED <<routerVars, ensVars>>
    \/ \E query \in Queries, user_id \in {None, "u1"},
          memory_type \in {None, "user"}, limit \in Limits :
          recall(query, user_id, memory_type, limit)
              /\ UNCHANGED <<routerVars, ensVars>>
    \/ \E user_id \in {None, "u1"}, query \in Queries :
          build_context("s1", user_id, query)
              /\ UNCHANGED <<routerVars, ensVars>>
    \/ \E id \in DOMAIN entries \cup {Hash("u1", "nothing", 0)} :
          get(id) /\ UNCHANGED <<routerVars, ensVars>>
    \/ \E user_id \in Users \cup {None} :
          compact(user_id) /\ UNCHANGED <<routerVars, ensVars>>
    \/ \E hours \in {72, 744} :
          AdvanceClock(hours) /\ UNCHANGED <<routerVars, ensVars>>

MemorySpec == MemoryInit /\ [][MemoryNext]_vars

\* ------------------------------------------------------------------------
\* The specification of a manager built with an llm_func (auto_compact on):
\* a database that holds no entries and a session that is new or already
\* holds max_session_messages or HistoryLimit messages (no summary was saved
\* for it: llm_func returned the empty string each time); the calls are
\* those that do not consolidate user facts.
\* ------------------------------------------------------------------------
SummarizerInit ==
    /\ RouterIdle
    /\ EnsIdle
    /\ entries = <<>>
    /\ pending = <<>>
    /\ nmessages \in {0, max_session_messages, HistoryLimit}
    /\ nsummarized = 0
    /\ llm_func = "llm_func"
    /\ context = NoContext
    /\ now = 0
    /\ ncalls = 0
    /\ last = NoCall

SummarizerNext ==
    \/ \E content \in {"hi"} :
          add_message("s1", "user", content) /\ UNCHANGED <<routerVars, ensVars>>
    \/ \E insight \in Insights :
          propose_learning(insight, "general", None, 2400)
              /\ UNCHANGED <<routerVars, ensVars>>
    \/ \E id \in LearningIds :
          approve_learning(id) /\ UNCHANGED <<routerVars, ensVars>>
    \/ \E query \in Queries, limit \in Limits :
          recall(query, None, None, limit)
              /\ UNCHANGED <<routerVars, ensVars>>
    \/ \E query \in Queries :
          build_context("s1", None, query)
              /\ UNCHANGED <<routerVars, ensVars>>
    \/ \E hours \in {72, 744} :
          AdvanceClock(hours) /\ UNCHANGED <<routerVars, ensVars>>

SummarizerSpec == SummarizerInit /\ [][SummarizerNext]_vars

\* ========================================================================
\* Properties of the router
\* ========================================================================
\* A route() call has just returned its decision.
Routed == decision.outcome # None

\* The names of the callbacks the last call awaited, in order.
CallNames == [i \in DOMAIN calls |-> calls[i].name]

\* The conditions of C1 on the classification of the last route() call:
\* confidence at or above both thresholds, a non-AMBIGUOUS intent mapped to
\* a handler, and all required slots of that handler extracted.
Dispatchable ==
    LET c == decision.classification
    IN  /\ Routed
        /\ c.confidence >= confidence_threshold
        /\ c.confidence >= clarification_threshold
        /\ c.intent.category # "AMBIGUOUS"
        /\ c.intent.name \in DOMAIN intent_to_handler
        /\ Range(handlers[intent_to_handler[c.intent.name]].requires_slots)
               \subseteq c.extracted_slots

\* The handler the intent of the last classification is mapped to.
MappedHandler == intent_to_handler[decision.classification.intent.name]

\* The last call awaited the callback of the mapped handler and it returned.
HandlerReturned ==
    /\ calls # <<>>
    /\ calls[1].name = MappedHandler
    /\ calls[1].kind = "returns"

\* C1: whenever the classification is dispatchable and the
\* callback of the mapped handler H returns, route() returns HANDLED with
\* handler_name = H and result = the value the callback returned, in every
\* router configuration, with or without memory manager and session id.
C1_HandledWheneverHandlerReturns ==
    (Dispatchable /\ HandlerReturned) =>
        /\ decision.outcome = "HANDLED"
        /\ decision.handler_name = MappedHandler
        /\ decision.result = calls[1].value

C3_HandlerExceptionBecomesError ==
    (Routed /\ calls # <<>> /\ calls[1].name \in HandlerNames
            /\ calls[1].kind = "raises") =>
        /\ decision.outcome = "ERROR"
        /\ decision.error = calls[1].value
        /\ decision.handler_name = calls[1].name
        /\ error_handler =>
               /\ CallNames = <<calls[1].name, "error">>
               /\ calls[2].kind = "returns" => decision.result = calls[2].value
               /\ calls[2].kind = "raises" => decision.result = None
        /\ ~error_handler =>
               /\ CallNames = <<calls[1].name>>
               /\ decision.result = None

\* C3 witness: a handler raised and the error handler returned its payload.
C3_Witness ==
    /\ Routed /\ Len(calls) = 2
    /\ calls[1].name \in HandlerNames /\ calls[1].kind = "raises"
    /\ calls[2].name = "error" /\ calls[2].kind = "returns"
    /\ decision.outcome = "ERROR"
    /\ decision.result = "recovered"

\* The slots the handler mapped to the last classification requires and the
\* classification lacks, in declared order.
MissingSlots ==
    LET c == decision.classification
        absent(slot) == slot \notin c.extracted_slots
    IN  SelectSeq(handlers[MappedHandler].requires_slots, absent)

\* The prompt the router gives for a missing slot.
ExpectedSlotText(slot) ==
    IF slot = "path"
    THEN <<"What", "file", "or", "path", "should", "I", "use?">>
    ELSE <<"Please", "provide:", slot>>

RECURSIVE ExpectedSlotPrompt(_)
ExpectedSlotPrompt(slots) ==
    IF slots = <<>> THEN <<>>
    ELSE ExpectedSlotText(Head(slots)) \o ExpectedSlotPrompt(Tail(slots))

\* The last classification passed the confidence checks and its intent is
\* mapped to a handler.
HandlerResolved ==
    LET c == decision.classification
    IN  /\ Routed
        /\ c.confidence >= 1500
        /\ c.confidence >= confidence_threshold
        /\ c.confidence >= clarification_threshold
        /\ c.intent.category # "AMBIGUOUS"
        /\ c.intent.name \in DOMAIN intent_to_handler

\* C5: when a slot the resolved handler requires is not among the extracted
\* slots, route() returns CLARIFICATION_NEEDED, awaits no callback, and the
\* prompt is made of one prompt per missing slot in declared order (the
\* table text, or "Please provide: <slot>"); for "path" it mentions "path".
C5_MissingSlotsAskClarification ==
    (HandlerResolved /\ MissingSlots # <<>>) =>
        /\ decision.outcome = "CLARIFICATION_NEEDED"
        /\ calls = <<>>
        /\ decision.clarification_prompt = ExpectedSlotPrompt(MissingSlots)
        /\ "path" \in Range(MissingSlots) =>
               "path" \in Range(decision.clarification_prompt)

\* C5 witness: a handler was resolved whose two required slots were both
\* missing, and the prompt asks for both.
C5_Witness ==
    /\ HandlerResolved
    /\ MissingSlots = <<"brightness", "path">>
    /\ decision.outcome = "CLARIFICATION_NEEDED"
    /\ Len(decision.clarification_prompt) = 10

\* ========================================================================
\* Properties of route_with_retry
\* ========================================================================
\* route_with_retry has returned.
RetryReturned == ~retry.active /\ retry.hist # <<>>

\* C4: route_with_retry(N) calls route() at least once and at most N+1
\* times, stops at the first outcome that is not ERROR and returns it, and
\* returns the last ERROR when all N+1 calls end in ERROR; with N = 2 and a
\* handler that raises twice and then returns, it returns HANDLED from the
\* third call.
C4_RetryStopsAtFirstSuccess ==
    LET h == retry.hist
        n == retry.max_retries
    IN  /\ Len(h) <= n + 1
        /\ \A i \in 1..(Len(h) - 1) : h[i].outcome = "ERROR"
        /\ retry.active =>
               /\ Len(h) <= n
               /\ \A i \in DOMAIN h : h[i].outcome = "ERROR"
        /\ RetryReturned =>
               /\ retry.result = h[Len(h)].outcome
               /\ retry.result = decision.outcome
               /\ retry.result = "ERROR" => Len(h) = n + 1
        /\ (RetryReturned /\ n = 2 /\ Len(h) = 3 /\ h[1].handler = "raises"
               /\ h[2].handler = "raises" /\ h[3].handler = "returns") =>
               retry.result = "HANDLED"
        /\ (~retry.active /\ h = <<>>) => retry = NoRetry

\* C4 witness: with max_retries = 2 the handler raised twice, returned on
\* the third call, and route_with_retry returned HANDLED.
C4_Witness ==
    /\ RetryReturned
    /\ retry.max_retries = 2
    /\ Len(retry.hist) = 3
    /\ retry.hist[1].handler = "raises"
    /\ retry.hist[2].handler = "raises"
    /\ retry.hist[3].handler = "returns"
    /\ retry.result = "HANDLED"

\* ========================================================================
\* Properties of the ensemble classifier
\* ========================================================================
\* The provider was consulted by the last classify() call.
Consulted == ens.consulted

\* C6: in each of the four strategies, whenever the provider is consulted
\* and its result has confidence 0, the returned intent and confidence
\* equal the rule result's intent and confidence.
C6_ZeroConfidenceFallsBackToRule ==
    (Consulted /\ ens.llm.confidence = 0) =>
        /\ ens.result.intent = ens.rule.intent
        /\ ens.result.confidence = ens.rule.confidence

\* ========================================================================
\* Properties of the memory manager
\* ========================================================================
\* The active USER entries of a user in table es.
ActiveUserEntries(es, user_id) ==
    {id \in DOMAIN es :
        /\ es[id].memory_type = "user"
        /\ es[id].user_id = user_id
        /\ ~es[id].is_archived}

\* MemoryStoreV2.get(id) returns an entry of table es.
Retrievable(es, id) == id \in DOMAIN es

\* C7: for an entry returned by each of N sequential recall() calls, the
\* access_count the store holds afterwards is its stored value before the
\* calls plus N.
C7_RecallCountsEveryAccess ==
    last.op = "recall" =>
        \A id \in last.always :
            entries[id].access_count
                = last.before[id].access_count + last.streak

\* The active entries of the user of the last call that were, before the
\* call, similar to its text at 0.75 or more.
SimilarBefore ==
    {id \in DOMAIN last.before :
        /\ ~last.before[id].is_archived
        /\ last.before[id].user_id = last.user_id
        /\ SequenceMatcherRatio(last.text, last.before[id].content) >= 2250}

\* The active entries of the user of the last call that are, after the
\* call, similar to its text at 0.75 or more.
SimilarAfter ==
    {id \in DOMAIN entries :
        /\ ~entries[id].is_archived
        /\ entries[id].user_id = last.user_id
        /\ SequenceMatcherRatio(last.text, entries[id].content) >= 2250}

\* C8 as stated: remember_user_fact with a fact similar at 0.75 or more to
\* an existing active entry of the user creates no entry: the user's active
\* USER entries are the same as before, the confidence of every such
\* existing entry is the maximum of its old confidence and the new one, and
\* exactly one active entry of the user stands for the fact.
C8_NearDuplicateFactUpdatesExisting ==
    (last.op = "remember_user_fact" /\ SimilarBefore # {}) =>
        /\ DOMAIN entries = DOMAIN last.before
        /\ ActiveUserEntries(entries, last.user_id)
               = ActiveUserEntries(last.before, last.user_id)
        /\ \A id \in SimilarBefore :
               entries[id].confidence
                   = Max(last.before[id].confidence, last.confidence)
        /\ Cardinality(SimilarAfter) = 1

\* C8 amended: remember_user_fact with a fact similar at 0.75 or more to
\* existing active entries of the user creates no entry: the user's active
\* USER entries are the same as before, the confidence of the most similar
\* of them is the maximum of its old confidence and the new one, and every
\* other entry, similar or not, is left as it was (so with one similar
\* entry, repeating the call leaves that one entry for the fact).
C8_NearDuplicateFactUpdatesMostSimilar ==
    (last.op = "remember_user_fact" /\ SimilarBefore # {}) =>
        /\ DOMAIN entries = DOMAIN last.before
        /\ ActiveUserEntries(entries, last.user_id)
               = ActiveUserEntries(last.before, last.user_id)
        /\ \E id \in SimilarBefore :
               /\ \A other \in SimilarBefore :
                      SequenceMatcherRatio(last.text, last.before[id].content)
                          >= SequenceMatcherRatio(last.text,
                                                  last.before[other].content)
               /\ last.returned = <<id>>
               /\ entries[id].confidence
                      = Max(last.before[id].confidence, last.confidence)
               /\ \A other \in DOMAIN entries \ {id} :
                      entries[other] = last.before[other]

\* C8 witness: a fact was remembered for a user who had two active entries
\* similar to it, both of lower confidence; the more similar one is now at
\* the new confidence and the other is as it was.
C8_Witness ==
    /\ last.op = "remember_user_fact"
    /\ \E id, other \in SimilarBefore :
          /\ id # other
          /\ last.before[id].content # last.text
          /\ last.before[id].confidence < last.confidence
          /\ last.before[other].confidence < last.confidence
          /\ entries[id].confidence = last.confidence
          /\ entries[other] = last.before[other]

\* C9: no call removes an entry: every stored entry, active or archived, is
\* still stored after any call (so the total count never decreases), and an
\* archived entry is still returned by get(id).
C9_EntriesAreNeverRemoved ==
    [][/\ DOMAIN entries \subseteq DOMAIN entries'
       /\ Cardinality(DOMAIN entries') >= Cardinality(DOMAIN entries)
       /\ \A id \in DOMAIN entries :
              entries[id].is_archived => Retrievable(entries', id)]_vars

\* C9 witness: compact() archived an entry that was active, and the entry
\* is still stored.
C9_Witness ==
    /\ last.op = "compact"
    /\ \E id \in DOMAIN last.before :
          /\ ~last.before[id].is_archived
          /\ Retrievable(entries, id)
          /\ entries[id].is_archived

\* C10: when compact(user) finds one pair of near-duplicate active USER
\* entries, afterwards exactly one of the two is active; it carries the
\* content of the higher-confidence entry (on a tie the more recently
\* updated), the maximum of the two confidences, the sum of the two access
\* counts, the other's id among its source_ids and a higher version than
\* before; the other is archived. This whichever of the two comes first.
C10_CompactMergesNearDuplicates ==
    (last.op = "compact" /\ Len(last.duplicates) = 1) =>
        LET a == last.duplicates[1][1]
            b == last.duplicates[1][2]
            ea == last.before[a]
            eb == last.before[b]
            winner == IF ea.confidence > eb.confidence THEN ea
                      ELSE IF eb.confidence > ea.confidence THEN eb
                      ELSE IF ea.updated_at > eb.updated_at THEN ea
                      ELSE eb
        IN  \E pair \in {<<a, b>>, <<b, a>>} :
               LET keep == pair[1]
                   drop == pair[2]
               IN  /\ ~entries[keep].is_archived
                   /\ entries[drop].is_archived
                   /\ entries[keep].content = winner.content
                   /\ entries[keep].confidence
                          = Max(ea.confidence, eb.confidence)
                   /\ entries[keep].access_count
                          = ea.access_count + eb.access_count
                   /\ drop \in entries[keep].source_ids
                   /\ entries[keep].version > last.before[keep].version

\* ------------------------------------------------------------------------
\* Fallback (C11, C12, C13)
\* ------------------------------------------------------------------------
\* The clarification condition of decision step 1 on the classification of
\* the last route() call.
ClarificationCondition ==
    LET c == decision.classification
    IN  \/ c.confidence < 1500
        \/ c.intent.category = "AMBIGUOUS"
        \/ c.confidence < clarification_threshold

\* The last route() call had a classification that does not meet the
\* clarification condition and whose confidence is below
\* confidence_threshold.
LowConfidence ==
    /\ Routed
    /\ ~ClarificationCondition
    /\ decision.classification.confidence < confidence_threshold

\* No callback of a registered intent handler was awaited.
NoIntentHandlerInvoked ==
    \A i \in DOMAIN calls : calls[i].name \notin HandlerNames

\* C11: for a classification that does not meet the clarification condition
\* and whose confidence is below confidence_threshold, route() awaits the
\* fallback handler when one is registered and returns FALLBACK with the
\* value it returned; with none registered route() returns
\* CLARIFICATION_NEEDED; no intent handler is awaited in either case.
C11_LowConfidenceFallsBack ==
    LowConfidence =>
        /\ NoIntentHandlerInvoked
        /\ fallback_handler =>
               /\ CallNames = <<"fallback">>
               /\ calls[1].kind = "returns" =>
                      /\ decision.outcome = "FALLBACK"
                      /\ decision.result = calls[1].value
        /\ ~fallback_handler => decision.outcome = "CLARIFICATION_NEEDED"

\* C11 witness: a classification of confidence 0.6 under a threshold of 0.8,
\* for an intent a handler is registered for, was given to the fallback
\* handler, which returned.
C11_Witness ==
    /\ LowConfidence
    /\ decision.classification.intent.name \in DOMAIN intent_to_handler
    /\ fallback_handler
    /\ decision.outcome = "FALLBACK"
    /\ decision.result = "fell back"

\* C12: with a fallback handler registered, a classification of confidence
\* below confidence_threshold is given to the fallback handler: route()
\* awaits it and returns FALLBACK (when it returns), never
\* CLARIFICATION_NEEDED.
C12_FallbackHandlesLowConfidence ==
    (/\ Routed
     /\ fallback_handler
     /\ decision.classification.confidence < confidence_threshold) =>
        /\ "fallback" \in Range(CallNames)
        /\ decision.outcome # "CLARIFICATION_NEEDED"
        /\ calls[1].kind = "returns" => decision.outcome = "FALLBACK"

\* The last route() call had a classification that passed the clarification
\* check and the confidence check and whose intent has no entry in the
\* intent-to-handler map.
Unmapped ==
    /\ Routed
    /\ ~ClarificationCondition
    /\ decision.classification.confidence >= confidence_threshold
    /\ decision.classification.intent.name \notin DOMAIN intent_to_handler

\* C13: for a classification that passes both checks and whose intent has
\* no entry in the intent-to-handler map, route() returns FALLBACK with
\* handler_name "fallback" and the value the fallback handler returned when
\* one is registered, ERROR when the fallback handler raises, and
\* NO_HANDLER with no callback awaited when none is registered.
C13_UnmappedIntentFallsBack ==
    Unmapped =>
        /\ fallback_handler =>
               /\ CallNames = <<"fallback">>
               /\ calls[1].kind = "returns" =>
                      /\ decision.outcome = "FALLBACK"
                      /\ decision.handler_name = "fallback"
                      /\ decision.result = calls[1].value
               /\ calls[1].kind = "raises" =>
                      /\ decision.outcome = "ERROR"
                      /\ decision.error = calls[1].value
        /\ ~fallback_handler =>
               /\ decision.outcome = "NO_HANDLER"
               /\ calls = <<>>

\* C13 witness: an intent no handler is mapped to, while a handler for
\* another intent and a fallback handler are registered: the fallback
\* handler returned and route() returned FALLBACK.
C13_Witness ==
    /\ Unmapped
    /\ handlers # <<>>
    /\ fallback_handler
    /\ decision.outcome = "FALLBACK"
    /\ decision.handler_name = "fallback"

\* ------------------------------------------------------------------------
\* Ensemble strategies (C14, C15)
\* ------------------------------------------------------------------------
\* C14: under rule_first, whenever the rule scorer's confidence is at or
\* above the rule confidence threshold, the ensemble result has the intent,
\* confidence, raw scores, extracted slots and ranked alternatives of the
\* rule result, contributing_classifiers is ["rule_based"], and the
\* provider is not consulted.
C14_RuleFirstReturnsRuleResult ==
    (ens.strategy = "rule_first"
        /\ ens.rule.confidence >= rule_confidence_threshold) =>
        /\ ens.result.intent = ens.rule.intent
        /\ ens.result.confidence = ens.rule.confidence
        /\ ens.result.raw_scores = ens.rule.raw_scores
        /\ ens.result.extracted_slots = ens.rule.extracted_slots
        /\ ens.result.alternative_intents = ens.rule.alternative_intents
        /\ ens.result.contributing_classifiers = <<"rule_based">>
        /\ ~ens.consulted

\* The names of the alternatives of the last ensemble result.
AlternativeNames ==
    {ens.result.alternative_intents[i][1] :
        i \in DOMAIN ens.result.alternative_intents}

ProviderFailed ==
    \/ llm.available = "False"
    \/ llm.query.kind = "raises"
    \/ llm.query.kind = "returns" /\ llm.query.response.json # "object"

\* C16: LocalLLMClassifier.classify returns a result in every case, and
\* whenever the provider is unreachable, the request times out or is
\* refused, or the answer cannot be parsed, the result is intent "unknown"
\* at confidence 0 with a reasoning that names the cause.
C16_ProviderFailureDegrades ==
    /\ llm.available # None => llm.result # NoLLMResult
    /\ ProviderFailed =>
           /\ llm.result.intent = "unknown"
           /\ llm.result.confidence = 0
           /\ llm.result.reasoning # <<>>
           /\ Head(llm.result.reasoning) \in
                  {"Local LLM not available", "LLM error:",
                   "Failed to parse LLM response:"}

\* Messages of the session not yet covered by a summary
\* (get_messages with unsummarized_only).
Unsummarized(total, summarized) == total - summarized

\* The summary entries a step adds to memory_entries_v2.
NewSummaries(before, after) == {id \in DOMAIN after \ DOMAIN before : after[id].memory_type = "summary"}

\* C17: an add_message that brings the session's unsummarized message count
\* from at most max_session_messages to above it creates exactly one new
\* SUMMARY entry covering all but the 10 most recent messages, marks those
\* messages summarized so that 10 unsummarized messages remain, and an
\* add_message that does not bring the count above the maximum in this way
\* creates no SUMMARY entry.
C17_SummarizeOncePerOverflow ==
    [][nmessages' = nmessages + 1 =>
        LET count == Unsummarized(nmessages, nsummarized)
            new == NewSummaries(entries, entries')
        IN  IF count <= max_session_messages /\ count + 1 > max_session_messages
            THEN /\ Cardinality(new) = 1
                 /\ \A id \in new : entries'[id].content = SummaryText(count + 1 - 10)
                 /\ Unsummarized(nmessages', nsummarized') = 10
            ELSE new = {}]_vars

\* The active USER entries of a user in table es that carry a category.
ActiveInCategory(es, user_id, category) == {id \in ActiveUserEntries(es, user_id) : es[id].category = category}

\* remember_user_fact inserted a new entry (no similar entry was updated) and
\* the user's active USER entries then exceeded max_user_memories.
InsertedAboveMax ==
    /\ last.op = "remember_user_fact"
    /\ Len(last.returned) = 1
    /\ last.returned[1] \notin ActiveUserEntries(last.before, last.user_id)
    /\ Cardinality(ActiveUserEntries(last.before, last.user_id)) + 1 > max_user_memories

\* C18: without a summarizer, after a remember_user_fact insert that makes
\* the user's active USER entry count exceed max_user_memories, every
\* category of the user holds at most 2 active entries, they are the
\* highest-confidence entries of the category, and every dropped entry is
\* archived and still retrievable by id; no entry is deleted.
C18_ConsolidationKeepsTwoPerCategory ==
    InsertedAboveMax =>
        /\ \A id \in DOMAIN last.before : Retrievable(entries, id)
        /\ Retrievable(entries, last.returned[1])
        /\ \A category \in {entries[id].category : id \in DOMAIN entries} :
              LET was == {id \in ActiveUserEntries(last.before, last.user_id) \cup {last.returned[1]} : entries[id].category = category}
                  active == ActiveInCategory(entries, last.user_id, category)
              IN  /\ Cardinality(active) <= 2
                  /\ active \subseteq was
                  /\ \A kept \in active, dropped \in was \ active :
                        /\ entries[kept].confidence >= entries[dropped].confidence
                        /\ entries[dropped].is_archived

\* The approved store holds learning id: a LEARNED row of memory_entries_v2
\* with approved = 1.
InApprovedStore(es, id) ==
    /\ id \in DOMAIN es
    /\ es[id].memory_type = "learned"
    /\ es[id].approved

\* The learning a propose_learning, approve_learning or reject_learning call
\* was made on.
LearningOf(call) == call.returned[1]

\* A step that is a call on the manager: time passing between two calls
\* moves the clock and leaves the record of the last call.
ManagerCall == ncalls' = ncalls + 1 /\ ~(last' = last /\ now' # now)

\* C19: learned-memory approval is a two-phase protocol. propose_learning
\* puts the entry in the pending table with approved = false and writes
\* nothing to the approved store; approve_learning(id) returns true exactly
\* when id is pending at the call, and then the entry is in the approved
\* store with approved = true and no longer pending; reject_learning(id)
\* returns true exactly when id is pending and removes it without writing
\* the approved store; approve or reject of an id that is not pending
\* returns false and changes neither table.
C19_TwoPhaseLearningProtocol ==
    [][ManagerCall =>
        LET id == LearningOf(last')
            was_pending == id \in DOMAIN pending
        IN  /\ last'.op = "propose_learning" =>
                  /\ id \in DOMAIN pending'
                  /\ ~get_pending_learnings(pending', now')[id].approved
                  /\ get_pending_learnings(pending', now')[id].content = last'.text
                  /\ entries' = entries
            /\ last'.op = "approve_learning" =>
                  /\ last'.ok = was_pending
                  /\ was_pending =>
                        /\ InApprovedStore(entries', id)
                        /\ entries'[id].content = pending[id].content
                        /\ id \notin DOMAIN pending'
                        /\ \A x \in DOMAIN pending \ {id} : x \in DOMAIN pending'
                  /\ ~was_pending => entries' = entries /\ pending' = pending
            /\ last'.op = "reject_learning" =>
                  /\ last'.ok = was_pending
                  /\ id \notin DOMAIN pending'
                  /\ entries' = entries
                  /\ ~was_pending => pending' = pending]_vars

\* An approve_learning call returned true: the learning is approved and no
\* longer pending.
C19_Witness ==
    /\ last.op = "approve_learning"
    /\ last.ok
    /\ InApprovedStore(entries, LearningOf(last))
    /\ LearningOf(last) \notin DOMAIN pending

\* A learning is held durably: in the pending table or in the approved
\* store.
Held(rows, es, id) == id \in DOMAIN rows \/ InApprovedStore(es, id)

\* C20: a learning that propose_learning has returned and that has not been
\* rejected is never lost: propose_learning leaves it in the pending table,
\* and every later step other than its rejection, a crash between the store
\* steps of approve_learning and the restart included, leaves it in the
\* pending table or in the approved store.
C20_ProposedLearningNeverLost ==
    [][/\ (ManagerCall /\ last'.op = "propose_learning") =>
             LearningOf(last') \in DOMAIN pending'
       /\ \A id \in LearningIds :
             (/\ Held(pending, entries, id)
              /\ ~(/\ ManagerCall
                   /\ last'.op = "reject_learning"
                   /\ LearningOf(last') = id)) =>
                 Held(pending', entries', id)]_vars

\* approve_learning died between store.save and
\* store.remove_pending_learning: the learning is in both tables.
C20_Witness ==
    /\ last.op = "approve_learning_crash"
    /\ LearningOf(last) \in DOMAIN pending
    /\ InApprovedStore(entries, LearningOf(last))

\* An entry of table es that search and ranking may surface: not archived
\* and approved.
Surfaceable(es, id) ==
    /\ id \in DOMAIN es
    /\ ~es[id].is_archived
    /\ es[id].approved

\* The learnings that are proposed and not approved: in the pending table
\* and not in the approved store.
Unapproved == {id \in DOMAIN pending : ~InApprovedStore(entries, id)}

\* C21: every entry recall() returns, and every user fact and learned
\* insight build_context() places in its output, is non-archived and
\* approved: a learning that is proposed and not approved is not among
\* the insights, and an archived entry is in no result.
C21_OnlyActiveApprovedSurfaced ==
    /\ last.op = "recall" =>
          \A id \in Range(last.returned) : Surfaceable(entries, id)
    /\ last.op = "build_context" =>
          /\ \A id \in Range(context.user_facts) \cup Range(context.insights) :
                Surfaceable(entries, id)
          /\ \A id \in Unapproved : id \notin Range(context.insights)
          /\ \A id \in Range(context.insights) :
                \A p \in Unapproved : entries[id].content # pending[p].content

\* build_context() for a user who has an archived fact: the fact is stored
\* and is not among the user facts of the context.
C21_Witness ==
    /\ last.op = "build_context"
    /\ \E id \in DOMAIN entries :
          /\ entries[id].is_archived
          /\ entries[id].memory_type = "user"
          /\ entries[id].user_id = last.user_id
          /\ id \notin Range(context.user_facts)

\* The versions an entry object handed to save() carries: the default of a
\* new object, and values below and above it.
CarriedVersions == {0, 1, 7}

\* The calls that save one entry under the id they return.
SavingCalls == {"remember_user_fact", "approve_learning"}

\* C22: the stored version of an entry strictly increases on every save of
\* its id: on every table the manager reaches, a save of an object with the
\* id of a stored row leaves a version greater than the stored one, whatever
\* version the object carries; and a call that saved an entry whose id was
\* stored before left it with a greater version.
C22_VersionIncreasesOnSave ==
    /\ \A id \in DOMAIN entries, v \in CarriedVersions :
          save(Store(entries, now), [entries[id] EXCEPT !.version = v]).entries[id].version
              > entries[id].version
    /\ \A id \in DOMAIN last.before \cap DOMAIN entries :
          entries[id].version >= last.before[id].version
    /\ (last.op \in SavingCalls /\ last.ok /\ LearningOf(last) \in DOMAIN last.before) =>
          entries[LearningOf(last)].version > last.before[LearningOf(last)].version

\* remember_user_fact updated a stored entry: its version is above the one
\* stored before the call.
C22_Witness ==
    /\ last.op = "remember_user_fact"
    /\ last.returned[1] \in DOMAIN last.before
    /\ entries[last.returned[1]].version > last.before[last.returned[1]].version

\* The positions of stack whose function returns a classification.
Returning(stack) == {i \in DOMAIN stack : stack[i].kind = "returns"}

\* The stages and positions of a trace of invocations.
Stages(invoked) == [i \in DOMAIN invoked |-> <<invoked[i].stage, invoked[i].index>>]

\* C23: within one route() call the pre-middleware run in registration
\* order, then the classifier exactly once, then the post-middleware in
\* registration order, then the decision; when a pre-middleware returns a
\* classification, the remaining pre-middleware, the classifier and the
\* post-middleware are not invoked and the decision is computed from the
\* returned classification.
C23_PipelineOrderAndShortCircuit ==
    decision.outcome # None =>
        IF Returning(pre_middleware) = {}
        THEN Stages(pipeline) =
                 [i \in 1..Len(pre_middleware) |-> <<"pre", i>>]
                 \o << <<"classifier", 0>> >>
                 \o [i \in 1..Len(post_middleware) |-> <<"post", i>>]
        ELSE LET first == CHOOSE i \in Returning(pre_middleware) :
                              \A j \in Returning(pre_middleware) : i <= j
             IN  /\ Stages(pipeline) = [i \in 1..first |-> <<"pre", i>>]
                 /\ decision.classification = pre_middleware[first].value

\* A route() call on a router with two pre-middleware and a
\* post-middleware, the first pre-middleware returning a classification:
\* nothing else of the pipeline ran.
C23_Witness ==
    /\ decision.outcome # None
    /\ Len(pre_middleware) = 2
    /\ Len(post_middleware) >= 1
    /\ pre_middleware[1].kind = "returns"
    /\ Stages(pipeline) = << <<"pre", 1>> >>
    /\ decision.classification = pre_middleware[1].value

\* A middleware stack in which every function that raises returns None
\* instead.
SkipRaising(stack) ==
    [i \in DOMAIN stack |-> IF stack[i].kind = "raises" THEN Passes ELSE stack[i]]

\* Some middleware of the router raises.
SomeMiddlewareRaises ==
    \E i \in DOMAIN pipeline :
        /\ pipeline[i].stage = "pre" => pre_middleware[pipeline[i].index].kind = "raises"
        /\ pipeline[i].stage = "post" => post_middleware[pipeline[i].index].kind = "raises"
        /\ pipeline[i].stage # "classifier"

\* What the classifier yielded in the last route() call, if it was invoked.
ClassifierYield ==
    IF \E i \in DOMAIN pipeline : pipeline[i].stage = "classifier"
    THEN (CHOOSE inv \in Range(pipeline) : inv.stage = "classifier").value
    ELSE NoClassification

\* C24: when a pre- or post-middleware raises, route() returns a decision
\* and the failure is not the cause of an ERROR: the failing middleware is
\* skipped, every remaining step runs, and the decision is computed from
\* the classification the same pipeline yields with the failing middleware
\* returning nothing.
C24_MiddlewareErrorsSwallowed ==
    (decision.outcome # None /\ SomeMiddlewareRaises) =>
        LET skipped == Pipeline(SkipRaising(pre_middleware),
                                SkipRaising(post_middleware), ClassifierYield)
        IN  /\ decision.classification = skipped.classification
            /\ Stages(pipeline) = Stages(skipped.invoked)
            /\ decision.outcome = "ERROR" => calls # <<>>

\* A route() call in which a pre-middleware and a post-middleware raised:
\* the classifier ran and its classification was handled.
C24_Witness ==
    /\ decision.outcome = "HANDLED"
    /\ \E i \in DOMAIN pre_middleware : pre_middleware[i].kind = "raises"
    /\ \E i \in DOMAIN post_middleware : post_middleware[i].kind = "raises"
    /\ decision.classification = ClassifierYield
    /\ Stages(pipeline) =
           [i \in 1..Len(pre_middleware) |-> <<"pre", i>>]
           \o << <<"classifier", 0>> >>
           \o [i \in 1..Len(post_middleware) |-> <<"post", i>>]

\* The intent-to-handler map after a register_handler(name, intents) call
\* on map: the intents listed go to name, every other intent keeps its
\* handler.
LastWins(map, name, intents) ==
    [intent \in DOMAIN map \cup Range(intents) |->
        IF intent \in Range(intents) THEN name ELSE map[intent]]

\* C25: after any sequence of register_handler calls each intent name maps
\* to at most one handler, the one named by the most recent registration
\* that listed the intent: every change of the registry is a registration
\* that maps the intents it lists to its name and leaves every other intent
\* with its handler; and every handler callback route() awaits is the one
\* the map names for the intent of the classification, never another
\* registered handler, and the decision names that handler.
C25_LastRegistrationWins ==
    /\ [][(intent_to_handler' # intent_to_handler \/ handlers' # handlers) =>
            \E reg \in Registrations :
                /\ reg[1] \in DOMAIN handlers'
                /\ handlers'[reg[1]].intents = reg[2]
                /\ intent_to_handler' = LastWins(intent_to_handler, reg[1], reg[2])]_vars
    /\ [](Routed =>
            /\ \A i \in DOMAIN calls :
                  calls[i].name \in HandlerNames =>
                      /\ decision.classification.intent.name \in DOMAIN intent_to_handler
                      /\ calls[i].name = MappedHandler
            /\ decision.handler_name \in HandlerNames =>
                  /\ decision.classification.intent.name \in DOMAIN intent_to_handler
                  /\ decision.handler_name = MappedHandler)

\* route() of a greeting on a router where H, which lists greeting, is
\* registered and greeting was then registered for G: G was awaited and
\* handled the text.
C25_Witness ==
    /\ decision.outcome = "HANDLED"
    /\ decision.classification.intent.name = "greeting"
    /\ "H" \in DOMAIN handlers
    /\ "greeting" \in Range(handlers["H"].intents)
    /\ decision.handler_name = "G"
    /\ calls # <<>>
    /\ calls[1].name = "G"

\* The two messages record_interaction stores for a turn, in order.
Turn(user_input, assistant_response) ==
    <<<<"user", user_input>>, <<"assistant", assistant_response>>>>

\* C26: with a memory manager and a session id present, a route() call that
\* ends in HANDLED appends exactly two messages to the session, the user
\* input followed by the response of the handler; a route() call that ends
\* in any other outcome leaves the message log of the session unchanged.
C26_OnlyHandledTurnsAreLogged ==
    [][\A c \in Classifications, sess \in Sessions :
          (memory /\ sess.session_id # None /\ route(c, sess)) =>
              IF decision'.outcome = "HANDLED"
              THEN session_log' = session_log \o Turn("text", decision'.result)
              ELSE session_log' = session_log]_vars

\* C27: if llm_func raises during a summarization triggered by add_message,
\* the add_message call still returns: the message stays stored and the
\* summary saved is the heuristic keyword-frequency summary of the
\* messages handed to the summarizer.
C27_SummarizerFailureFallsBack ==
    [][\A lb \in SummarizerBehaviours :
          (/\ llm_func # None
           /\ ToSummarize(nmessages + 1) > 0
           /\ lb.kind = "raises"
           /\ add_message_awaiting("s1", "user", "hi", lb)) =>
              /\ last'.ok
              /\ nmessages' = nmessages + 1
              /\ \E id \in DOMAIN entries' \ DOMAIN entries :
                    /\ entries'[id].memory_type = "summary"
                    /\ entries'[id].content =
                           SummaryText(ToSummarize(nmessages + 1))]_vars

\* The row numbers of the latest messages of a session of count rows, up
\* to limit of them, oldest first.
MostRecent(count, limit) ==
    [i \in 1..Min(count, limit) |-> count - Min(count, limit) + i]

\* C28: the conversation history build_context returns for a session is the
\* most recent messages of the session, up to the history limit, in
\* chronological order, for sessions of any length.
C28_HistoryIsMostRecent ==
    last.op = "build_context" =>
        context.conversation_history = MostRecent(nmessages, HistoryLimit)

\* The vote accumulated for an intent name in the last classification:
\* confidence times weight of each source that named it, in units of
\* 1/(10 * Scale).
Vote(name) ==
    (IF ens.rule.intent = name THEN ens.rule.confidence * rule_weight ELSE 0)
    + (IF ens.llm.intent = name THEN ens.llm.confidence * llm_weight ELSE 0)

\* C29: under weighted_vote each source adds confidence times weight (rule
\* 0.4, provider 0.6) to the vote of the intent it names; the returned intent
\* is one a source named whose accumulated vote is maximal, the returned
\* confidence is that vote divided by rule_weight + llm_weight and lies in
\* [0, 1], and agreement is 1 if the sources name the same intent and 0
\* otherwise.
C29_WeightedVote ==
    ens.strategy = "weighted_vote" =>
        /\ ens.consulted
        /\ ens.result.intent \in {ens.rule.intent, ens.llm.intent}
        /\ \A name \in {ens.rule.intent, ens.llm.intent} :
              Vote(ens.result.intent) >= Vote(name)
        /\ ens.result.confidence * (rule_weight + llm_weight)
               = Vote(ens.result.intent)
        /\ ens.result.confidence \in 0..Scale
        /\ ens.result.agreement_score \in {0, Scale}
        /\ ens.result.agreement_score = Scale <=> ens.rule.intent = ens.llm.intent

\* Under weighted_vote the sources named different intents, both with a
\* positive confidence, and the provider's intent won although its
\* confidence is the lower one.
C29_Witness ==
    /\ ens.strategy = "weighted_vote"
    /\ ens.rule.intent # ens.llm.intent
    /\ ens.rule.confidence > ens.llm.confidence
    /\ ens.llm.confidence > 0
    /\ ens.result.intent = ens.llm.intent
    /\ ens.result.confidence * 10 = ens.llm.confidence * llm_weight
    /\ ens.result.agreement_score = 0

C31_RuleFirstConsultsProvider ==
    (ens.strategy = "rule_first" /\ ens.consulted) =>
        LET rule == ens.rule
            result == ens.result
        IN  /\ rule.confidence < rule_confidence_threshold
            /\ IF ens.llm.confidence < 900
               THEN LET better == IF rule.confidence >= ens.llm.confidence
                                  THEN rule ELSE ens.llm
                    IN  /\ result.intent = better.intent
                        /\ result.confidence = better.confidence
                        /\ result.extracted_slots = better.extracted_slots
               ELSE /\ result.intent = ens.llm.intent
                    /\ result.confidence = ens.llm.confidence
                    /\ DOMAIN result.extracted_slots =
                           DOMAIN rule.extracted_slots
                               \cup DOMAIN ens.llm.extracted_slots
                    /\ \A k \in DOMAIN result.extracted_slots :
                           result.extracted_slots[k] =
                               IF k \in DOMAIN ens.llm.extracted_slots
                               THEN ens.llm.extracted_slots[k]
                               ELSE rule.extracted_slots[k]
                    /\ result.agreement_score =
                           IF rule.intent = ens.llm.intent
                           THEN Scale ELSE Scale \div 2

\* Under rule_first the rules were below the threshold with a slot, and the
\* provider, at exactly 0.3, named another intent with the same slot key:
\* the provider's intent, confidence and slot value were returned at
\* agreement 0.5.
C31_Witness ==
    /\ ens.strategy = "rule_first"
    /\ ens.consulted
    /\ ens.llm.confidence = 900
    /\ ens.rule.confidence > ens.llm.confidence
    /\ ens.rule.intent # ens.llm.intent
    /\ "path" \in DOMAIN ens.rule.extracted_slots
    /\ "path" \in DOMAIN ens.llm.extracted_slots
    /\ ens.result.intent = ens.llm.intent
    /\ ens.result.extracted_slots["path"] = "llm path"
    /\ ens.result.agreement_score = Scale \div 2

\* C32: after an availability probe of the instance has failed, every
\* classify() call that starts later returns the zero-confidence
\* unavailable result, sends no request to the provider and makes no probe,
\* also when classify() calls on the instance overlap.
C32_FailedProbeIsFinal ==
    \A t \in DOMAIN tasks :
        tasks[t].after_failure =>
            /\ tasks[t].pc = "done"
            /\ tasks[t].probed = None
            /\ tasks[t].query = NotQueried
            /\ tasks[t].result = Unavailable

\* C33: invalid configuration is rejected at construction: no
\* EnsembleClassifier is constructed with a negative rule_weight or
\* llm_weight or a rule_confidence_threshold outside [0, 1], no Router with
\* a threshold outside [0, 1], and no classify() request fails because of a
\* weight (rule_weight + llm_weight = 0 under weighted_vote).
C33_InvalidConfigurationRejected ==
    /\ config.ensemble = "constructed" =>
          /\ config.rule_weight >= 0
          /\ config.llm_weight >= 0
          /\ config.rule_confidence_threshold \in 0..Scale
    /\ config.router = "constructed" =>
          /\ confidence_threshold \in 0..Scale
          /\ clarification_threshold \in 0..Scale
    /\ config.request \in {None, "returned"}

\* C33, at request time only: no classify() request on a constructed
\* classifier fails.
C33_NoRequestFails == config.request \in {None, "returned"}

\* A text scores positive for no intent of the registry the call read.
NothingScores(call) ==
    \A k \in DOMAIN call.registry :
        _score_intent(rule_classifier.compiled, strip(lower(call.text)), call.text,
                      call.registry[k]) <= 0

\* C34: for every text for which no registered intent scores positive,
\* RuleBasedClassifier.classify returns "unknown" at confidence 0 with
\* empty raw scores and no slots, and it returns the same on every call
\* with that text.
C34_UnknownWhenNothingScores ==
    /\ \A k \in DOMAIN rule_classifier.calls :
          NothingScores(rule_classifier.calls[k]) =>
              /\ rule_classifier.calls[k].result.intent = "unknown"
              /\ rule_classifier.calls[k].result.confidence = 0
              /\ rule_classifier.calls[k].result.raw_scores = <<>>
              /\ rule_classifier.calls[k].result.extracted_slots = <<>>
    /\ \A j, k \in DOMAIN rule_classifier.calls :
          (rule_classifier.calls[j].text = rule_classifier.calls[k].text
               /\ NothingScores(rule_classifier.calls[j]) /\ NothingScores(rule_classifier.calls[k]))
              => rule_classifier.calls[j].result = rule_classifier.calls[k].result

\* Two calls classified a text that holds a keyword of an intent of
\* negative priority and nothing else: nothing scores positive.
C34_Witness ==
    /\ Len(rule_classifier.calls) = 2
    /\ rule_classifier.calls[1].text = <<"i">>
    /\ rule_classifier.calls[2].text = <<" ", "i">>
    /\ \E k \in DOMAIN rule_classifier.calls[2].registry :
          rule_classifier.calls[2].registry[k] = SmallTalkIntent
    /\ NothingScores(rule_classifier.calls[2])
    /\ rule_classifier.calls[2].result.intent = "unknown"

\* C35: within one route_with_retry call a registered handler is invoked
\* again only after its previous invocation raised: no attempt follows an
\* attempt in which the handler returned, also with a memory manager
\* attached.
C35_NoRetryAfterSuccess ==
    \A k \in DOMAIN retry.hist :
        retry.hist[k].handler = "returns" =>
            /\ k = Len(retry.hist)
            /\ ~retry.active
            /\ \A j \in 1..(k - 1) : retry.hist[j].handler # "returns"

\* With a memory manager attached, the handler raised in the first attempt
\* and returned in the second, and the call returned.
C35_Witness ==
    /\ memory
    /\ Len(retry.hist) = 2
    /\ retry.hist[1].handler = "raises"
    /\ retry.hist[2].handler = "returns"
    /\ retry.max_retries = 2
    /\ retry.result = "HANDLED"

\* The pairs find_duplicates finds among the active USER entries of the
\* user, read as compact() reads them.
NearDuplicates(user_id) ==
    LET ids == search_relevant(entries, now, "", "user", user_id, 1000)
    IN  find_duplicates([i \in DOMAIN ids |-> entries[ids[i]]])

\* C36: after compact(user_id) returns, no two active USER entries of that
\* user are near-duplicates of each other (similarity >= 0.75).
C36_NoNearDuplicatesAfterCompact ==
    (last.op = "compact" /\ last.user_id # None) =>
        NearDuplicates(last.user_id) = <<>>

\* Every entry archived in the table before is archived in the table
\* after.
StaysArchived(before, after) ==
    \A id \in DOMAIN before :
        before[id].is_archived => (id \in DOMAIN after /\ after[id].is_archived)

\* C37: archival is monotone under compaction and consolidation: an entry
\* that is archived is not made active again by a later step of the same
\* compact(), by a later compact(), or by the consolidation of a later
\* remember_user_fact (which may itself store the fact it is given anew).
C37_ArchivalIsMonotone ==
    [][/\ \A user_id \in Users \cup {None} :
              compact(user_id) =>
                  LET steps == CompactSteps(entries, now, user_id)
                  IN  /\ steps[Len(steps)] = entries'
                      /\ \A i, j \in DOMAIN steps :
                            i < j => StaysArchived(steps[i], steps[j])
       /\ (last'.op = "remember_user_fact" /\ entries' # entries) =>
              \A id \in DOMAIN entries :
                  (entries[id].is_archived /\ id # last'.returned[1])
                      => entries'[id].is_archived]_vars

\* C38: with auto_compact, after every remember_user_fact call returns, the
\* user holds at most max_user_memories active USER entries.
C38_ActiveEntriesBounded ==
    last.op = "remember_user_fact" =>
        Cardinality(ActiveUserEntries(entries, last.user_id))
            <= max_user_memories

\* C39: consolidation with a summarizer preserves ownership: every entry a
\* remember_user_fact call created by consolidation has the user_id of the
\* facts it replaces, so that recall() for that user returns an active
\* entry of the consolidated category.
C39_ConsolidationKeepsOwner ==
    last.op = "remember_user_fact" =>
        \A id \in DOMAIN entries \ (DOMAIN last.before \cup {last.returned[1]}) :
            /\ \A source \in entries[id].source_ids :
                  entries[source].user_id = entries[id].user_id
            /\ \E found \in Range(search_relevant(entries, now, "", "user",
                                                  last.user_id, 10)) :
                  entries[found].category = entries[id].category

\* C40: after any sequence of register_handler calls, also one that
\* registers a name again with another list of intents, every intent of
\* the intent-to-handler map resolves to a registered handler (the lookup
\* of the handler never fails), and the list of intents of that handler
\* contains the intent.
C40_MappedIntentsAreListed ==
    \A intent \in DOMAIN intent_to_handler :
        /\ intent_to_handler[intent] \in DOMAIN handlers
        /\ intent \in Range(handlers[intent_to_handler[intent]].intents)

====
